---------------------------- MODULE Spec2Model ----------------------------
(***************************************************************************)
(* Context Studio: the filesystem scanner (model/file_scanner.py), the     *)
(* tri-state selection tree (model/project_tree_model.py), the context     *)
(* assembler (model/context_builder.py) and the controller that wires them *)
(* (controller/app_controller.py).                                         *)
(*                                                                         *)
(* Paths are sequences of name strings (pathlib's parts without the        *)
(* anchor); names, file contents and documents are strings.                *)
(***************************************************************************)
EXTENDS Integers, Sequences, FiniteSets, TLC

(***************************************************************************)
(* Strings, as Python computes on them.                                    *)
(***************************************************************************)

\* The characters a string can hold here, in code-point order: the code
\* points 1 to 255, the backquote (96) apart, which a TLA+ string cannot
\* hold and whose place a form feed keeps.  Control holds 1 to 31, Ascii 32
\* to 126, High 127 to 255.
Control == "\t\n\f\r"
Ascii == " !\"#$%&'()*+,-./0123456789:;<=>?@ABCDEFGHIJKLMNOPQRSTUVWXYZ[\\]^_\fabcdefghijklmnopqrstuvwxyz{|}~"
High == " ¡¢£¤¥¦§¨©ª«¬­®¯°±²³´µ¶·¸¹º»¼½¾¿ÀÁÂÃÄÅÆÇÈÉÊËÌÍÎÏÐÑÒÓÔÕÖ×ØÙÚÛÜÝÞßàáâãäåæçèéêëìíîïðñòóôõö÷øùúûüýþÿ"
CodePage == Control \o Ascii \o High

CharAt(s, i) == SubSeq(s, i, i)

\* ord(c) of each character: its first place in the code page.
OrdTable ==
    [c \in {CharAt(CodePage, i) : i \in 1..Len(CodePage)} |->
        CHOOSE i \in 1..Len(CodePage) :
            /\ CharAt(CodePage, i) = c
            /\ \A j \in 1..(i - 1) : CharAt(CodePage, j) # c]

\* ord(c) of a one-character string.
Ord(c) == OrdTable[c]

\* str.lower() on one character: 'A'..'Z' and the capital letters of
\* Latin-1 (U+00C0 to U+00DE, the multiplication sign U+00D7 apart) move 32
\* code points up.
LowerChar(c) ==
    IF \/ Ord(c) >= 65 /\ Ord(c) <= 90
       \/ Ord(c) >= 192 /\ Ord(c) <= 222 /\ Ord(c) # 215
    THEN CharAt(CodePage, Ord(c) + 32) ELSE c

RECURSIVE Lower(_)
Lower(s) == IF s = "" THEN "" ELSE LowerChar(CharAt(s, 1)) \o Lower(SubSeq(s, 2, Len(s)))

\* a < b for Python strings: lexicographic on code points.
RECURSIVE StrLess(_, _)
StrLess(a, b) ==
    IF b = "" THEN FALSE
    ELSE IF a = "" THEN TRUE
    ELSE IF CharAt(a, 1) = CharAt(b, 1)
         THEN StrLess(SubSeq(a, 2, Len(a)), SubSeq(b, 2, Len(b)))
         ELSE Ord(CharAt(a, 1)) < Ord(CharAt(b, 1))

StartsWith(s, prefix) ==
    Len(s) >= Len(prefix) /\ SubSeq(s, 1, Len(prefix)) = prefix

\* str.isspace() of one character: the characters str.strip() removes.
IsSpace(c) == Ord(c) \in {9, 10, 11, 12, 13, 28, 29, 30, 31, 32, 133, 160}

RECURSIVE LStrip(_)
LStrip(s) == IF s # "" /\ IsSpace(CharAt(s, 1)) THEN LStrip(SubSeq(s, 2, Len(s))) ELSE s

RECURSIVE RStrip(_)
RStrip(s) ==
    IF s # "" /\ IsSpace(CharAt(s, Len(s))) THEN RStrip(SubSeq(s, 1, Len(s) - 1)) ELSE s

\* str.strip()
Strip(s) == RStrip(LStrip(s))

\* sep.join(parts)
RECURSIVE Join(_, _)
Join(sep, parts) ==
    IF parts = <<>> THEN ""
    ELSE IF Len(parts) = 1 THEN parts[1]
    ELSE parts[1] \o sep \o Join(sep, Tail(parts))

\* The index of the last '.' of a name, 0 when it has none (str.rfind, 1-based).
RECURSIVE RFindDot(_, _)
RFindDot(s, i) ==
    IF i = 0 THEN 0 ELSE IF CharAt(s, i) = "." THEN i ELSE RFindDot(s, i - 1)

\* pathlib's PurePath.suffix of a name: from the last dot, unless the dot
\* is the first or the last character.
Suffix(name) ==
    LET i == RFindDot(name, Len(name))
    IN  IF i > 1 /\ i < Len(name) THEN SubSeq(name, i, Len(name)) ELSE ""

RECURSIVE LStripDots(_)
LStripDots(s) == IF s # "" /\ CharAt(s, 1) = "." THEN LStripDots(SubSeq(s, 2, Len(s))) ELSE s

(***************************************************************************)
(* Paths.                                                                  *)
(***************************************************************************)

\* Path.name
NameOf(p) == IF p = <<>> THEN "" ELSE p[Len(p)]

\* Path.parent
ParentOf(p) == IF p = <<>> THEN <<>> ELSE SubSeq(p, 1, Len(p) - 1)

IsPrefix(a, b) == Len(a) <= Len(b) /\ SubSeq(b, 1, Len(a)) = a

\* str(path) of an absolute POSIX path.
PathStr(p) == "/" \o Join("/", p)

(***************************************************************************)
(* The filesystem the program runs on.                                     *)
(*                                                                         *)
(* A filesystem is [rootPath, logFile, loads, dirs]: logFile tells whether *)
(* the program can open context_studio.log in its working directory, loads *)
(* are the paths it is asked to load, and dirs maps a directory identity   *)
(* (st_dev, st_ino), here a number, to the directory                       *)
(*   [statOk, size, search, scandir, entries]                              *)
(* and the directory with identity 1 is the one at rootPath; search is the *)
(* directory's search permission, without which its entries can be listed  *)
(* but not reached.  An entry is                                           *)
(*   [name, type, ino, err, file, target]                                  *)
(* with type "dir" (ino: its identity; two entries with one identity are   *)
(* one directory seen at two places, as under a bind mount), "file",       *)
(* "symlink" (ino > 0: it resolves to that directory; else to file, or to  *)
(* nothing when file.exists is FALSE) or "other" (socket, fifo).           *)
(* target is the resolved path of what a symbolic link to a file or to     *)
(* nothing points to, <<>> for every other entry.                          *)
(* err is what DirEntry.is_dir raises on it: "none", "perm", "os".         *)
(* scandir is [err, yielded]: the error os.scandir or its iterator raises  *)
(* ("none", "perm", "os") after yielding that many entries.                *)
(* A file is [exists, statOk, size, open, utf8, text, latin1, msg]: what   *)
(* exists(), stat() and open()/read() give for it.                         *)
(***************************************************************************)

NoFile == [exists |-> FALSE, statOk |-> TRUE, size |-> 0, open |-> "none",
           utf8 |-> TRUE, text |-> "", latin1 |-> "", msg |-> ""]

\* A readable UTF-8 text file of the given size and content.
TextFile(size, text) ==
    [exists |-> TRUE, statOk |-> TRUE, size |-> size, open |-> "none",
     utf8 |-> TRUE, text |-> text, latin1 |-> text, msg |-> ""]

FileEntry(name, file) ==
    [name |-> name, type |-> "file", ino |-> 0, err |-> "none", file |-> file,
     target |-> <<>>]

DirEntry(name, ino) ==
    [name |-> name, type |-> "dir", ino |-> ino, err |-> "none", file |-> NoFile,
     target |-> <<>>]

\* A symbolic link to the directory with that identity.
DirLink(name, ino) ==
    [name |-> name, type |-> "symlink", ino |-> ino, err |-> "none", file |-> NoFile,
     target |-> <<>>]

\* A symbolic link to the regular file at the path target, or to nothing
\* there when the file does not exist.
FileLink(name, file, target) ==
    [name |-> name, type |-> "symlink", ino |-> 0, err |-> "none", file |-> file,
     target |-> target]

Dir(entries) ==
    [statOk |-> TRUE, size |-> 4096, search |-> TRUE,
     scandir |-> [err |-> "none", yielded |-> 0], entries |-> entries]

(***************************************************************************)
(* The directories of a long nest, each holding the next and nothing else, *)
(* have the identities ChainBase * ino + up: the directory ino is the      *)
(* innermost and the directory ChainBase * ino + up lies up levels above   *)
(* it, all under the name ChainName.  What walks such a nest takes it in   *)
(* one step: the entry of its outermost directory stands for up + 1        *)
(* directories of that name, one in another.                               *)
(***************************************************************************)
ChainBase == 10000
ChainName == "d"

InteriorId(ino, up) == IF up = 0 THEN ino ELSE ChainBase * ino + up

\* The path k directories of one name below a path.
LevelPath(current_path, name, k) == current_path \o [j \in 1..k |-> name]

\* How many directories a directory entry stands for, and the innermost.
LevelsOf(entry) == IF entry.ino >= ChainBase THEN (entry.ino % ChainBase) + 1 ELSE 1
InnermostOf(entry) == IF entry.ino >= ChainBase THEN entry.ino \div ChainBase ELSE entry.ino

\* The directory of such a nest that lies up levels above its innermost.
ChainDir(ino, up) == Dir(<<DirEntry(ChainName, InteriorId(ino, up - 1))>>)

\* What a path names when it is used: [kind, ino, file], kind "missing",
\* "dir", "file", "other", or "denied" when a directory on the way refuses
\* the search (stat() fails with EACCES); symbolic links are followed, as
\* stat() does.
Missing == [kind |-> "missing", ino |-> 0, file |-> NoFile]
NotSearchable == [kind |-> "denied", ino |-> 0, file |-> NoFile]

RECURSIVE Walk(_, _, _)
Walk(fs, ino, rel) ==
    IF rel = <<>> THEN [kind |-> "dir", ino |-> ino, file |-> NoFile]
    ELSE IF ~fs.dirs[ino].search THEN NotSearchable
    ELSE LET es == fs.dirs[ino].entries
             hit == {i \in 1..Len(es) : es[i].name = rel[1]}
         IN  IF hit = {} THEN Missing
             ELSE LET e == es[CHOOSE i \in hit : TRUE]
                  IN  IF e.type = "dir" \/ (e.type = "symlink" /\ e.ino > 0)
                      THEN Walk(fs, e.ino, Tail(rel))
                      ELSE IF Len(rel) > 1 THEN Missing
                      ELSE IF e.type = "other"
                           THEN [kind |-> "other", ino |-> 0, file |-> NoFile]
                      ELSE IF e.file.exists
                           THEN [kind |-> "file", ino |-> 0, file |-> e.file]
                           ELSE Missing

Lookup(fs, path) ==
    IF IsPrefix(fs.rootPath, path)
    THEN Walk(fs, 1, SubSeq(path, Len(fs.rootPath) + 1, Len(path)))
    ELSE Missing

\* The directories of the filesystem with the path of each from the root
\* that crosses no symbolic link, n entries on at most.
RECURSIVE DirPlaces(_, _, _, _)
DirPlaces(f, ino, path, n) ==
    {[ino |-> ino, path |-> path]}
    \cup IF n = 0 THEN {}
         ELSE UNION {DirPlaces(f, f.dirs[ino].entries[i].ino,
                               Append(path, f.dirs[ino].entries[i].name), n - 1)
                     : i \in {j \in 1..Len(f.dirs[ino].entries) :
                                 f.dirs[ino].entries[j].type = "dir"}}

RealPathOfDir(f, ino) ==
    (CHOOSE p \in DirPlaces(f, 1, f.rootPath, Cardinality(DOMAIN f.dirs)) : p.ino = ino).path

\* Path.resolve(): the path with the symbolic links on its way replaced by
\* what they point to.  done is the resolved path of the directory ino and
\* rel what is left to resolve; what cannot be reached (a missing entry, one
\* below a directory that cannot be searched or below a file) is kept as it
\* is written.
RECURSIVE ResolveFrom(_, _, _, _)
ResolveFrom(f, ino, done, rel) ==
    IF rel = <<>> THEN done
    ELSE IF ~f.dirs[ino].search THEN done \o rel
    ELSE LET es  == f.dirs[ino].entries
             hit == {i \in 1..Len(es) : es[i].name = rel[1]}
         IN  IF hit = {} THEN done \o rel
             ELSE LET e == es[CHOOSE i \in hit : TRUE]
                  IN  IF e.type = "dir"
                      THEN ResolveFrom(f, e.ino, Append(done, e.name), Tail(rel))
                      ELSE IF e.type = "symlink" /\ e.ino > 0
                      THEN ResolveFrom(f, e.ino, RealPathOfDir(f, e.ino), Tail(rel))
                      ELSE IF e.type = "symlink"
                      THEN e.target \o Tail(rel)
                      ELSE done \o rel

Resolve(f, path) ==
    IF IsPrefix(f.rootPath, path)
    THEN ResolveFrom(f, 1, f.rootPath, SubSeq(path, Len(f.rootPath) + 1, Len(path)))
    ELSE path

(***************************************************************************)
(* The scanner: model/file_scanner.py.                                      *)
(*                                                                         *)
(* A scan result is Python's nested dict, kept as the sequence of its      *)
(* items in insertion order: [name, isFile, sub, levels], isFile for the   *)
(* value None and sub the nested dict of a directory.  An item with        *)
(* levels above 1 stands for that many dicts of one key, the name, one in  *)
(* another, the innermost being sub.                                       *)
(***************************************************************************)

\* sys.getrecursionlimit(): the Python frames the interpreter allows at a
\* time; the call that needs one more raises RecursionError.
RecursionLimit == 1000

\* The frames that a call of _recursive_scan needs beneath its own for
\* Path(), stat() and os.scandir(), the recursive call and the logger apart.
CallFrames == 6

\* The frames that a call of the logger needs beneath the frame that makes
\* it: for a record that the file handler writes; for one that only the
\* console handler writes (INFO and above, when setup_logger could not open
\* the log file); and for one that no handler writes (DEBUG, then).
FileLogFrames == 12
ConsoleLogFrames == 11
UnhandledLogFrames == 8

\* logger.debug, logger.warning and logger.error on a filesystem: whether
\* the file handler is there depends on whether context_studio.log in the
\* working directory could be opened.
LogFrames(fs, level) ==
    IF fs.logFile THEN FileLogFrames
    ELSE IF level = "DEBUG" THEN UnhandledLogFrames
    ELSE ConsoleLogFrames

\* Whether a statement that needs so many frames beneath the frame at depth
\* raises RecursionError.
Overflows(depth, needed) == depth + needed > RecursionLimit

\* The most frames in use when scan() is called: 1 is a call at module
\* level, 3 the call of load_project by main() at start-up, and more the
\* call of load_project by a slot.
MaxFrames == 7

\* The frames in use when scan() is called by itself, and by load_project.
CallerFrames == 1..MaxFrames
LoadFrames == 3..MaxFrames

\* tree_structure[name] = value
DictSet(d, item) ==
    IF \E i \in 1..Len(d) : d[i].name = item.name
    THEN [i \in 1..Len(d) |-> IF d[i].name = item.name THEN item ELSE d[i]]
    ELSE Append(d, item)

\* The entries the "for entry in it" loop sees: all of them, or those the
\* iterator yields before os.scandir or the iterator raises.
EnumeratedNothingOnError(dir) ==
    IF dir.scandir.err = "none" THEN dir.entries ELSE <<>>

Enumerated(dir) ==
    IF dir.scandir.err = "none" THEN dir.entries
    ELSE SubSeq(dir.entries, 1, dir.scandir.yielded)

\* The symlink-loop guard: whether the directory's identity was seen before.
LoopDetected(ino, visited_inodes) == ino \in visited_inodes

\* entry.is_dir(follow_symlinks=False) and entry.is_file(follow_symlinks=False)
EntryIsDir(entry) == entry.type = "dir"
EntryIsFile(entry) == entry.type = "file"

\* The test on a directory entry: entry.name in self.excluded_dirs.
InExcludedDirsNever(entry, excluded) == FALSE
InExcludedDirs(entry, excluded) == entry.name \in excluded

\* _recursive_scan(current_path, visited_inodes): [tree, visited, raised], with
\* visited the shared set as the call leaves it and raised when an exception
\* that no handler of _recursive_scan catches (RecursionError) escapes.
\* The calls on the directories that one entry stands for are taken in one
\* step: each adds its identity to the set, finds the one entry and calls
\* on, and the innermost is called at the depth of them all.  depth is the
\* number of the call's frame on the interpreter's stack.
\* The statements that log (an entry that cannot be inspected, an excluded
\* directory, a directory seen before, a directory that cannot be
\* enumerated) raise RecursionError when the logger lacks the frames; as the
\* error ends the whole scan whichever statement raises it, the test for the
\* directory's own failure is made before its entries are gone through.
RECURSIVE recursive_scan(_, _, _, _, _)
RECURSIVE ScanEntries(_, _, _, _, _, _)
ScanEntries(fs, excluded, entries, visited, depth, acc) ==
    IF entries = <<>> THEN [tree |-> acc, visited |-> visited, raised |-> FALSE]
    ELSE LET entry == Head(entries)
             rest  == Tail(entries)
         IN  IF entry.err # "none"
             THEN IF Overflows(depth, LogFrames(fs, IF entry.err = "perm" THEN "WARNING"
                                                    ELSE "ERROR"))
                  THEN [tree |-> <<>>, visited |-> visited, raised |-> TRUE]
                  ELSE ScanEntries(fs, excluded, rest, visited, depth, acc)
             ELSE IF EntryIsDir(entry)
             THEN IF InExcludedDirs(entry, excluded)
                  THEN IF Overflows(depth, LogFrames(fs, "DEBUG"))
                       THEN [tree |-> <<>>, visited |-> visited, raised |-> TRUE]
                       ELSE ScanEntries(fs, excluded, rest, visited, depth, acc)
                  ELSE LET sub == recursive_scan(fs, excluded, InnermostOf(entry),
                                      visited \cup {InteriorId(InnermostOf(entry), up) :
                                                       up \in 1..(LevelsOf(entry) - 1)},
                                      depth + LevelsOf(entry))
                       IN  IF sub.raised THEN sub
                           ELSE ScanEntries(fs, excluded, rest, sub.visited, depth,
                                    DictSet(acc, [name |-> entry.name, isFile |-> FALSE,
                                                  sub |-> sub.tree,
                                                  levels |-> LevelsOf(entry)]))
             ELSE IF EntryIsFile(entry)
             THEN ScanEntries(fs, excluded, rest, visited, depth,
                      DictSet(acc, [name |-> entry.name, isFile |-> TRUE, sub |-> <<>>,
                                    levels |-> 1]))
             ELSE ScanEntries(fs, excluded, rest, visited, depth, acc)

recursive_scan(fs, excluded, ino, visited_inodes, depth) ==
    IF Overflows(depth, CallFrames)
    THEN [tree |-> <<>>, visited |-> visited_inodes, raised |-> TRUE]
    ELSE LET dir == fs.dirs[ino]
         IN  IF dir.statOk /\ LoopDetected(ino, visited_inodes)
             THEN [tree |-> <<>>, visited |-> visited_inodes,
                   raised |-> Overflows(depth, LogFrames(fs, "WARNING"))]
             ELSE IF dir.scandir.err # "none" /\ Overflows(depth, LogFrames(fs, "ERROR"))
             THEN [tree |-> <<>>, visited |-> visited_inodes, raised |-> TRUE]
             ELSE ScanEntries(fs, excluded, Enumerated(dir),
                              IF dir.statOk THEN visited_inodes \cup {ino} ELSE visited_inodes,
                              depth, <<>>)

\* FileScanner.scan() on the directory with identity ino, called with that
\* many frames in use: its own frame is the next, that of the call on the
\* root the one after.
scan(fs, excluded, ino, in_use) ==
    LET r == recursive_scan(fs, excluded, ino, {}, in_use + 2)
    IN  IF r.raised THEN <<>> ELSE r.tree

(***************************************************************************)
(* The selection tree: model/project_tree_model.py.                        *)
(*                                                                         *)
(* An item is known by the path it stores under PATH_ROLE.  The tree maps  *)
(* each item, and the invisible root item (known by the root path), to     *)
(* [isDir, rows]: rows are the paths of its child items in row order.      *)
(* Check states are Qt's: "Unchecked", "PartiallyChecked", "Checked".      *)
(***************************************************************************)

\* The sort key of _build_tree_recursive: (data[k] is None, k.lower()).
KeyLess(a, b) ==
    \/ ~a.isFile /\ b.isFile
    \/ a.isFile = b.isFile /\ StrLess(Lower(a.name), Lower(b.name))

\* sorted(): stable, so an item goes behind the items its key is not less than.
RECURSIVE InsertSorted(_, _)
InsertSorted(sorted, x) ==
    IF sorted = <<>> THEN <<x>>
    ELSE IF KeyLess(x, Head(sorted)) THEN <<x>> \o sorted
    ELSE <<Head(sorted)>> \o InsertSorted(Tail(sorted), x)

RECURSIVE SortedItemsFrom(_, _)
SortedItemsFrom(data, acc) ==
    IF data = <<>> THEN acc ELSE SortedItemsFrom(Tail(data), InsertSorted(acc, Head(data)))

SortedItems(data) == SortedItemsFrom(data, <<>>)

\* _build_tree_recursive(data, parent_item, current_path): the items created
\* below parent_item, as the set of [path, isDir, rows].
\* The rows of an item at current_path whose dict is data.
RowsOf(data, current_path) ==
    LET keys == SortedItems(data)
    IN  [j \in 1..Len(keys) |-> Append(current_path, keys[j].name)]

RECURSIVE BuildItems(_, _)
BuildItems(data, current_path) ==
    UNION {
        {[path  |-> LevelPath(current_path, data[i].name, k),
          isDir |-> ~data[i].isFile,
          rows  |-> IF k < data[i].levels
                    THEN <<LevelPath(current_path, data[i].name, k + 1)>>
                    ELSE RowsOf(data[i].sub, LevelPath(current_path, data[i].name, k))]
         : k \in 1..data[i].levels}
        \cup BuildItems(data[i].sub,
                        LevelPath(current_path, data[i].name, data[i].levels))
        : i \in 1..Len(data)}

\* populate(scan_data, root_path): the tree, the invisible root item included.
populate(scan_data, root_path) ==
    LET items == BuildItems(scan_data, root_path)
                 \cup {[path |-> root_path, isDir |-> TRUE,
                        rows |-> RowsOf(scan_data, root_path)]}
    IN  [p \in {it.path : it \in items} |->
            LET it == CHOOSE x \in items : x.path = p
            IN  [isDir |-> it.isDir, rows |-> it.rows]]

\* QStandardItem.hasChildren()
hasChildren(tree, item) == tree[item].rows # <<>>

\* Whether get_checked_files takes the child for a file.
TakenForFile(tree, child) == ~hasChildren(tree, child)

\* What get_checked_files does with its stack: parent = stack.pop().
PopFirst(stack) == [item |-> Head(stack), rest |-> Tail(stack)]
Pop(stack) == [item |-> stack[Len(stack)], rest |-> SubSeq(stack, 1, Len(stack) - 1)]

\* get_checked_files(): the loop over one parent's rows, then the next pop.
RECURSIVE CheckedFilesLoop(_, _, _, _)
RECURSIVE CheckedFilesRows(_, _, _, _, _)
CheckedFilesRows(tree, cs, rows, stack, checked_files) ==
    IF rows = <<>> THEN CheckedFilesLoop(tree, cs, stack, checked_files)
    ELSE LET child == Head(rows)
         IN  IF ~TakenForFile(tree, child)
             THEN CheckedFilesRows(tree, cs, Tail(rows), Append(stack, child), checked_files)
             ELSE IF cs[child] = "Checked"
             THEN CheckedFilesRows(tree, cs, Tail(rows), stack, Append(checked_files, child))
             ELSE CheckedFilesRows(tree, cs, Tail(rows), stack, checked_files)

CheckedFilesLoop(tree, cs, stack, checked_files) ==
    IF stack = <<>> THEN checked_files
    ELSE CheckedFilesRows(tree, cs, tree[Pop(stack).item].rows, Pop(stack).rest,
                          checked_files)

get_checked_files(tree, cs, root_path) ==
    IF root_path \notin DOMAIN tree THEN <<>>
    ELSE CheckedFilesLoop(tree, cs, <<root_path>>, <<>>)

\* item.parent(): None (here <<>>) for a top-level item, whose parent is the
\* invisible root item.
ItemParent(tree, root_path, item) ==
    IF ParentOf(item) = root_path THEN <<>> ELSE ParentOf(item)

\* QObject.blockSignals(b) on the model, within a world
\* [cs, blocked, emitted]: the check states, whether the model's signals are
\* blocked, and the items itemChanged was emitted for, in order.
blockSignalsIgnored(w, b) == w
blockSignals(w, b) == [w EXCEPT !.blocked = b]

\* QStandardItem.setCheckState(state): nothing when the state is the same;
\* else the state is stored and the model emits itemChanged unless its
\* signals are blocked.
setCheckState(w, item, state) ==
    IF w.cs[item] = state THEN w
    ELSE [w EXCEPT !.cs[item] = state,
                   !.emitted = IF w.blocked THEN @ ELSE Append(@, item)]

\* _set_children_state(parent, state)
RECURSIVE SetRowsStateShallow(_, _, _, _)
SetRowsStateShallow(tree, w, rows, state) ==
    IF rows = <<>> THEN w
    ELSE SetRowsStateShallow(tree, setCheckState(w, Head(rows), state), Tail(rows), state)

RECURSIVE set_children_state(_, _, _, _)
RECURSIVE SetRowsState(_, _, _, _)
SetRowsState(tree, w, rows, state) ==
    IF rows = <<>> THEN w
    ELSE LET child == Head(rows)
             w1    == setCheckState(w, child, state)
             w2    == IF hasChildren(tree, child)
                      THEN set_children_state(tree, w1, child, state) ELSE w1
         IN  SetRowsState(tree, w2, Tail(rows), state)

set_children_state(tree, w, parent, state) ==
    SetRowsState(tree, w, tree[parent].rows, state)

\* The state _update_parent_state computes for a parent from its rows.
NewParentStateNoPartial(tree, cs, parent) ==
    IF \A i \in 1..Len(tree[parent].rows) : cs[tree[parent].rows[i]] = "Checked"
    THEN "Checked" ELSE "Unchecked"

NewParentStateOrEqual(tree, cs, parent) ==
    LET rows          == tree[parent].rows
        checked_count == Cardinality({i \in 1..Len(rows) : cs[rows[i]] = "Checked"})
    IN  IF checked_count = Len(rows) THEN "Checked"
        ELSE IF checked_count >= 0 THEN "PartiallyChecked"
        ELSE "Unchecked"

NewParentState(tree, cs, parent) ==
    LET rows          == tree[parent].rows
        child_count   == Len(rows)
        checked_count == Cardinality({i \in 1..Len(rows) : cs[rows[i]] = "Checked"})
        partial_count == Cardinality({i \in 1..Len(rows) : cs[rows[i]] = "PartiallyChecked"})
    IN  IF checked_count = child_count THEN "Checked"
        ELSE IF checked_count > 0 \/ partial_count > 0 THEN "PartiallyChecked"
        ELSE "Unchecked"

\* Whether _update_parent_state stops at a parent: it goes on only
\* "if parent.checkState() != new_parent_state".
StopsClimbingAlways(current_state, new_parent_state) == TRUE
StopsClimbing(current_state, new_parent_state) == current_state = new_parent_state

\* _update_parent_state(item)
RECURSIVE update_parent_state(_, _, _, _)
update_parent_state(tree, root_path, w, item) ==
    LET parent == ItemParent(tree, root_path, item)
    IN  IF parent = <<>> THEN w
        ELSE LET new_parent_state == NewParentState(tree, w.cs, parent)
             IN  IF ~StopsClimbing(w.cs[parent], new_parent_state)
                 THEN update_parent_state(tree, root_path,
                          setCheckState(w, parent, new_parent_state), parent)
                 ELSE w

\* on_item_changed(item): signals blocked, down, up, signals unblocked.
on_item_changed(tree, root_path, w, item) ==
    LET w0        == blockSignals(w, TRUE)
        new_state == w0.cs[item]
        w1        == IF hasChildren(tree, item)
                     THEN set_children_state(tree, w0, item, new_state) ELSE w0
        w2        == update_parent_state(tree, root_path, w1, item)
    IN  blockSignals(w2, FALSE)

(***************************************************************************)
(* The context assembler: model/context_builder.py.                        *)
(***************************************************************************)

MAX_FILE_SIZE_BYTES == 1000000
HEADER_FILENAME == "context_header.md"
FOOTER_FILENAME == "context_footer.md"

\* The Markdown code fence.  A TLA+ string cannot hold the backquote, so three
\* tildes stand for the three backquotes of the source (the same length).
Fence == "~~~"

\* encodings_to_try
Encodings == <<"utf-8", "utf-8-sig", "latin-1">>

\* open(file_path, 'r', encoding=encoding).read(): [ok, text].  Bytes that
\* are not valid UTF-8 fail both UTF-8 codecs; latin-1 decodes any bytes.
Decode(file, encoding) ==
    IF encoding = "latin-1" THEN [ok |-> TRUE, text |-> file.latin1]
    ELSE [ok |-> file.utf8, text |-> file.text]

\* The size test of _read_file_safe.
TooLargeFromCeiling(size) == size >= MAX_FILE_SIZE_BYTES
TooLarge(size) == size > MAX_FILE_SIZE_BYTES

\* The loop over encodings_to_try, from the i-th encoding on.
\* open() of a directory fails with EACCES when the directory cannot be
\* read, as os.scandir does, and else with EISDIR.
RECURSIVE ReadWithEncodings(_, _, _, _)
ReadWithEncodings(fs, st, path, i) ==
    IF i > Len(Encodings) THEN "[Error: Binary or unsupported encoding]"
    ELSE IF st.kind = "dir" /\ fs.dirs[st.ino].scandir = [err |-> "perm", yielded |-> 0]
    THEN "[Error: Permission denied]"
    ELSE IF st.kind = "dir"
    THEN "[Error: System error [Errno 21] Is a directory: '" \o PathStr(path) \o "']"
    ELSE IF st.kind = "other"
    THEN "[Error: System error [Errno 6] No such device or address: '" \o PathStr(path) \o "']"
    ELSE IF st.file.open = "perm" THEN "[Error: Permission denied]"
    ELSE IF st.file.open = "os" THEN "[Error: System error " \o st.file.msg \o "]"
    ELSE IF Decode(st.file, Encodings[i]).ok THEN Decode(st.file, Encodings[i]).text
    ELSE ReadWithEncodings(fs, st, path, i + 1)

\* file_path.exists() raises instead of answering: stat() fails with an
\* error other than "no such file", as EACCES below a directory that refuses
\* the search.  _read_file_safe and _read_special_file call it outside any
\* try block.
ExistsRaises(fs, file_path) == Lookup(fs, file_path).kind = "denied"

\* str(e) of the PermissionError that exists() raises.
PermissionErrorStr(file_path) ==
    "[Errno 13] Permission denied: '" \o PathStr(file_path) \o "'"

\* _read_file_safe(file_path), when exists() does not raise.
read_file_safe(fs, file_path) ==
    LET st     == Lookup(fs, file_path)
        statOk == IF st.kind = "dir" THEN fs.dirs[st.ino].statOk
                  ELSE IF st.kind = "file" THEN st.file.statOk ELSE TRUE
        size   == IF st.kind = "dir" THEN fs.dirs[st.ino].size
                  ELSE IF st.kind = "file" THEN st.file.size ELSE 0
    IN  IF st.kind = "missing" THEN "[Error: File not found]"
        ELSE IF ~statOk THEN "[Error: Could not access file metadata]"
        ELSE IF TooLarge(size)
        THEN "[Error: File too large to include (" \o ToString(size) \o " bytes)]"
        ELSE IF size = 0 THEN ""
        ELSE ReadWithEncodings(fs, st, file_path, 1)

\* _read_special_file(file_path): <<content>>, or <<>> for None.
read_special_file(fs, file_path) ==
    IF Lookup(fs, file_path).kind # "file" THEN <<>>
    ELSE LET content == read_file_safe(fs, file_path)
         IN  IF StartsWith(content, "[Error") THEN <<>> ELSE <<Strip(content)>>

\* The truth value of an Optional[str]: None and "" are false.
Truthy(content) == content # <<>> /\ content[1] # ""

\* _get_relative_path_safe(target, root)
get_relative_path_safe(target, root) ==
    IF IsPrefix(root, target)
    THEN IF Len(target) = Len(root) THEN "."
         ELSE Join("/", SubSeq(target, Len(root) + 1, Len(target)))
    ELSE NameOf(target)

\* The test of "A. Duplication Prevention": whether the loop skips the file.
SkippedNever(file_path, root_path) == FALSE
Skipped(file_path, root_path) == NameOf(file_path) \in {HEADER_FILENAME, FOOTER_FILENAME}

\* extension = file_path.suffix.lstrip('.') or "text"
ExtensionAlwaysText(file_path) == "text"
Extension(file_path) ==
    LET stripped == LStripDots(Suffix(NameOf(file_path)))
    IN  IF stripped = "" THEN "text" ELSE stripped

\* The part the loop appends for one file whose read gave content.
FileSection(file_path, root_path, content) ==
    LET relative_path == get_relative_path_safe(file_path, root_path)
        extension     == Extension(file_path)
        header        == "## File: " \o relative_path
        code_block    == Fence \o extension \o "\n" \o content \o "\n" \o Fence
    IN  header \o "\n" \o code_block \o "\n"

\* "3. Selected Files Processing": the parts of the files from the i-th on.
RECURSIVE FileParts(_, _, _, _)
FileParts(fs, file_paths, root_path, i) ==
    IF i > Len(file_paths) THEN <<>>
    ELSE LET file_path == file_paths[i]
             rest      == FileParts(fs, file_paths, root_path, i + 1)
         IN  IF Skipped(file_path, root_path) THEN rest
             ELSE LET content == read_file_safe(fs, file_path)
                  IN  IF content = "" THEN rest
                      ELSE <<FileSection(file_path, root_path, content)>> \o rest

Preamble ==
    <<"# Context Injection\n",
      "The following codebase context was automatically defined as important for this prompt:\n">>

HeaderParts(fs, root_path) ==
    LET header_content == read_special_file(fs, Append(root_path, HEADER_FILENAME))
    IN  IF Truthy(header_content) THEN <<header_content[1] \o "\n">> ELSE <<>>

FooterParts(fs, root_path) ==
    LET footer_content == read_special_file(fs, Append(root_path, FOOTER_FILENAME))
    IN  IF Truthy(footer_content) THEN <<"\n" \o footer_content[1]>> ELSE <<>>

\* output_parts as build_context_string leaves it.
output_parts(fs, file_paths, root_path) ==
    Preamble \o HeaderParts(fs, root_path) \o FileParts(fs, file_paths, root_path, 1)
             \o FooterParts(fs, root_path)

\* build_context_string(file_paths, root_path), when nothing is raised.
build_context_string(fs, file_paths, root_path) ==
    Join("\n", output_parts(fs, file_paths, root_path))

\* The exceptions that escape build_context_string, in the order of the
\* reads: of the header, of each file the loop does not skip, of the footer.
\* The first one ends the call.
build_raises(fs, file_paths, root_path) ==
    LET reads == <<Append(root_path, HEADER_FILENAME)>>
                 \o SelectSeq(file_paths, LAMBDA f : ~Skipped(f, root_path))
                 \o <<Append(root_path, FOOTER_FILENAME)>>
        bad   == {i \in 1..Len(reads) : ExistsRaises(fs, reads[i])}
    IN  [i \in 1..Cardinality(bad) |->
            PermissionErrorStr(reads[CHOOSE j \in bad :
                Cardinality({k \in bad : k < j}) = i - 1])]

\* estimate_token_count(text)
estimate_token_count(text) == IF text = "" THEN 0 ELSE Len(text) \div 4

(***************************************************************************)
(* The filesystems the program is run on.  Entries are in the order        *)
(* os.scandir yields them.  A file whose exists is FALSE was listed by the *)
(* scan and deleted before it is read.                                     *)
(***************************************************************************)

Root == <<"proj">>

\* The end-to-end scenario: a.txt, sub/b.py and context_header.md.
FsScenario ==
    [rootPath |-> Root,
     logFile  |-> TRUE,
     loads    |-> {Root, Root \o <<"sub">>, Root \o <<"a.txt">>, <<"nowhere">>},
     dirs     |-> [i \in {1, 2} |->
        IF i = 1 THEN Dir(<<FileEntry("context_header.md", TextFile(6, "INTRO\n")),
                            FileEntry("a.txt", TextFile(5, "hello")),
                            DirEntry("sub", 2)>>)
        ELSE Dir(<<FileEntry("b.py", TextFile(8, "print(1)"))>>)]]

\* Empty directories, at the top level and beside files; names whose order
\* depends on the case folding.
FsEmptyDirs ==
    [rootPath |-> Root,
     logFile  |-> TRUE,
     loads    |-> {Root, Root \o <<"lib">>},
     dirs     |-> [i \in {1, 2, 3, 4} |->
        IF i = 1 THEN Dir(<<DirEntry("lib", 2), DirEntry("hollow", 3)>>)
        ELSE IF i = 2 THEN Dir(<<FileEntry("B.py", TextFile(3, "B=1")),
                                 DirEntry("empty", 4),
                                 FileEntry("a.py", TextFile(3, "a=1"))>>)
        ELSE Dir(<<>>)]]

\* Three levels of directories, two sibling directories, files below each;
\* names with letters outside ASCII, whose order depends on the code points
\* of the folded names.
FsDeep ==
    [rootPath |-> Root,
     logFile  |-> TRUE,
     loads    |-> {Root},
     dirs     |-> [i \in {1, 2, 3, 4} |->
        IF i = 1 THEN Dir(<<DirEntry("x", 2), DirEntry("m", 4)>>)
        ELSE IF i = 2 THEN Dir(<<FileEntry("w.txt", TextFile(1, "w")), DirEntry("y", 3)>>)
        ELSE IF i = 3 THEN Dir(<<FileEntry("z.txt", TextFile(1, "z")),
                                 FileEntry("Éb.txt", TextFile(4, "all:")),
                                 FileEntry("éa.txt", TextFile(1, "v"))>>)
        ELSE Dir(<<FileEntry("n.txt", TextFile(0, ""))>>)]]

\* A directory holding a symbolic link back to the root, a symbolic link to a
\* file, an excluded directory and a file deleted after the scan.
FsLinks ==
    [rootPath |-> Root,
     logFile  |-> TRUE,
     loads    |-> {Root, Root \o <<"A", "back">>, Root \o <<"A", "back", "A">>,
                  Root \o <<"link.txt">>},
     dirs     |-> [i \in {1, 2, 3} |->
        IF i = 1 THEN Dir(<<DirEntry("A", 2), DirEntry(".git", 3),
                            FileLink("link.txt", TextFile(1, "f"), Root \o <<"A", "f.txt">>),
                            FileEntry("gone.txt", [TextFile(4, "gone") EXCEPT !.exists = FALSE])>>)
        ELSE IF i = 2 THEN Dir(<<DirLink("back", 1), FileEntry("f.txt", TextFile(1, "f"))>>)
        ELSE Dir(<<FileEntry("config", TextFile(6, "[core]"))>>)]]

\* A directory that can be listed but not searched (mode r--): its entries
\* are seen by the scan, and stat() of them fails with EACCES.
FsLocked ==
    [rootPath |-> Root,
     logFile  |-> TRUE,
     loads    |-> {Root, Root \o <<"locked", "s.txt">>},
     dirs     |-> [i \in {1, 2} |->
        IF i = 1 THEN Dir(<<FileEntry("top.txt", TextFile(3, "top")), DirEntry("locked", 2)>>)
        ELSE [Dir(<<FileEntry("s.txt", TextFile(6, "secret"))>>) EXCEPT !.search = FALSE]]]

FileSystems == {FsScenario, FsEmptyDirs, FsDeep, FsLinks, FsLocked}

\* One directory at two places (a bind mount): b and a have one identity.
FsBind ==
    [rootPath |-> Root,
     logFile  |-> TRUE,
     loads    |-> {Root, Root \o <<"a">>},
     dirs     |-> [i \in {1, 2, 3} |->
        IF i = 1 THEN Dir(<<DirEntry("b", 2), DirEntry("a", 2)>>)
        ELSE IF i = 2 THEN Dir(<<DirEntry("inner", 3), FileEntry("g.txt", TextFile(1, "y"))>>)
        ELSE Dir(<<FileEntry("f.txt", TextFile(1, "x"))>>)]]

\* Directories and entries that fail: denied cannot be enumerated, flaky
\* fails after its first entry, weird.bin cannot be inspected, nostat cannot
\* be identified by stat() and is enumerated.
FsErrors ==
    [rootPath |-> Root,
     logFile  |-> TRUE,
     loads    |-> {Root, Root \o <<"flaky">>},
     dirs     |-> [i \in {1, 2, 3, 4, 5, 6} |->
        IF i = 1 THEN Dir(<<FileEntry("ok.txt", TextFile(2, "ok")),
                            DirEntry("denied", 2),
                            [FileEntry("weird.bin", TextFile(1, "w")) EXCEPT !.err = "perm"],
                            DirEntry("flaky", 3),
                            [DirEntry("stale", 6) EXCEPT !.err = "os"],
                            DirEntry("nostat", 4),
                            DirEntry("after", 5)>>)
        ELSE IF i = 2 THEN [Dir(<<FileEntry("hidden.txt", TextFile(1, "h"))>>)
                               EXCEPT !.scandir = [err |-> "perm", yielded |-> 0]]
        ELSE IF i = 3 THEN [Dir(<<FileEntry("one.txt", TextFile(1, "1")),
                                  FileEntry("two.txt", TextFile(1, "2"))>>)
                               EXCEPT !.scandir = [err |-> "os", yielded |-> 1]]
        ELSE IF i = 4 THEN [Dir(<<FileEntry("n.txt", TextFile(1, "n"))>>)
                               EXCEPT !.statOk = FALSE]
        ELSE IF i = 5 THEN Dir(<<FileEntry("z.txt", TextFile(1, "z"))>>)
        ELSE Dir(<<FileEntry("lost.txt", TextFile(1, "l"))>>)]]

\* Directories with excluded names at the top and deeper, and regular files
\* that bear such names (venv; the .git file of a submodule).
FsExcluded ==
    [rootPath |-> Root,
     logFile  |-> TRUE,
     loads    |-> {Root, Root \o <<"src">>},
     dirs     |-> [i \in {1, 2, 3, 4, 5, 6, 7} |->
        IF i = 1 THEN Dir(<<FileEntry("venv", TextFile(4, "venv")),
                            DirEntry("src", 2), DirEntry(".git", 3), DirEntry("build", 4)>>)
        ELSE IF i = 2 THEN Dir(<<DirEntry("node_modules", 5),
                                 FileEntry("main.py", TextFile(4, "main")),
                                 FileEntry(".git", TextFile(7, "gitdir:"))>>)
        ELSE IF i = 3 THEN Dir(<<FileEntry("config", TextFile(6, "[core]"))>>)
        ELSE IF i = 4 THEN Dir(<<DirEntry("__pycache__", 6),
                                 FileEntry("out.txt", TextFile(3, "out"))>>)
        ELSE IF i = 5 THEN Dir(<<DirEntry("pkg", 7)>>)
        ELSE IF i = 6 THEN Dir(<<FileEntry("m.pyc", TextFile(1, "m"))>>)
        ELSE Dir(<<FileEntry("index.js", TextFile(2, "js"))>>)]]

\* Symbolic links that resolve: alias to the directory real, note_link to
\* the file note.txt; and dangling, which resolves to nothing.
FsAliases ==
    [rootPath |-> Root,
     logFile  |-> TRUE,
     loads    |-> {Root, Root \o <<"alias">>, Root \o <<"real">>,
                  Root \o <<"note_link">>, Root \o <<"dangling">>},
     dirs     |-> [i \in {1, 2} |->
        IF i = 1 THEN Dir(<<DirLink("alias", 2), DirEntry("real", 2),
                            FileEntry("note.txt", TextFile(4, "note")),
                            FileLink("note_link", TextFile(4, "note"), Root \o <<"note.txt">>),
                            FileLink("dangling", NoFile, Root \o <<"nothing">>)>>)
        ELSE Dir(<<FileEntry("r.txt", TextFile(1, "r"))>>)]]

\* A nest of directories near the depth the interpreter's recursion allows:
\* d in the root, d in d and so on, that many directories below the root,
\* a file in the root, and in the innermost a file and one more directory,
\* under the entry inner and with identity 3.
FsNest(levels, inner, innerDir) ==
    [rootPath |-> Root,
     logFile  |-> TRUE,
     loads    |-> {Root, Root \o <<ChainName>>},
     dirs     |-> [i \in {1, 2, 3} \cup {InteriorId(2, up) : up \in 1..(levels - 1)} |->
        IF i = 1 THEN Dir(<<FileEntry("f.txt", TextFile(1, "f")),
                            DirEntry(ChainName, InteriorId(2, levels - 1))>>)
        ELSE IF i = 2 THEN Dir(<<FileEntry("g.txt", TextFile(1, "g")), inner>>)
        ELSE IF i = 3 THEN innerDir
        ELSE ChainDir(2, i % ChainBase)]]

\* The nest whose innermost directory holds a directory .git.  Scanned from
\* d at module level, the innermost directory is called at the deepest
\* frame from which the skip of .git can still be logged to the file.
ChainLevels == RecursionLimit - FileLogFrames - 2

FsChain ==
    FsNest(ChainLevels, DirEntry(".git", 3),
           Dir(<<FileEntry("config", TextFile(6, "[core]"))>>))

\* The nest, two levels less deep, whose innermost directory holds a
\* directory that cannot be enumerated.
ClosedLevels == ChainLevels - 2

FsChainClosed ==
    FsNest(ClosedLevels, DirEntry("closed", 3),
           [Dir(<<FileEntry("h.txt", TextFile(1, "h"))>>)
               EXCEPT !.scandir = [err |-> "perm", yielded |-> 0]])

\* The filesystem when setup_logger cannot open the log file.
WithoutLogFile(f) == [f EXCEPT !.logFile = FALSE]

\* The filesystems the scanner is run on by itself.
ScanFileSystems ==
    {FsScenario, FsEmptyDirs, FsDeep, FsLinks, FsLocked,
     FsBind, FsErrors, FsExcluded, FsAliases, FsChain, FsChainClosed,
     WithoutLogFile(FsChain), WithoutLogFile(FsChainClosed)}

\* The excluded_dirs the scanner is constructed with, by itself.
ExclusionSets ==
    {{}, {".git", "__pycache__", "venv", "node_modules", ".idea", ".vscode"},
     {"sub", "lib", "x", "src"}, {"venv", ".git", "a.txt", "top.txt", "f.txt"},
     {"b", "y", "empty", "A", "d"}, {"build", "hollow", "real", "after"}}

\* The filesystems the assembler is run on by itself: one file per outcome
\* of a read, and data.txt, the header and the footer in one of five states.
\* The bytes FF D8 FF E0 of data.txt in its fourth state are not UTF-8;
\* latin-1 decodes them to the four characters U+00FF, U+00D8, U+00FF, U+00E0.
\* The header and the footer in their fifth state have white space outside
\* ASCII around their text, and the footer in its second state holds nothing
\* but such white space.
Denied(file) == [file EXCEPT !.open = "perm"]

DataVariant(k) ==
    IF k = 1 THEN Denied(TextFile(6, "secret"))
    ELSE IF k = 2 THEN [TextFile(4, "data") EXCEPT !.open = "os",
                            !.msg = "[Errno 5] Input/output error: '/proj/data.txt'"]
    ELSE IF k = 3 THEN [TextFile(4, "data") EXCEPT !.statOk = FALSE]
    ELSE IF k = 4 THEN [TextFile(4, "") EXCEPT !.utf8 = FALSE, !.latin1 = "ÿØÿà"]
    ELSE [TextFile(4, "data") EXCEPT !.exists = FALSE]

\* The no-break space U+00A0 and the vertical tab: white space to str.strip().
NBSP == CharAt(CodePage, 160)
VT == CharAt(CodePage, 11)

HeaderVariant(k) ==
    IF k = 1 THEN <<FileEntry(HEADER_FILENAME, TextFile(8, "  INTRO\n"))>>
    ELSE IF k = 2 THEN <<FileEntry(HEADER_FILENAME, TextFile(20, "[Error] known issues"))>>
    ELSE IF k = 3 THEN <<>>
    ELSE IF k = 4 THEN <<FileEntry(HEADER_FILENAME, Denied(TextFile(5, "INTRO")))>>
    ELSE <<FileEntry(HEADER_FILENAME, TextFile(11, VT \o NBSP \o "INTRO" \o NBSP \o "\n"))>>

FooterVariant(k) ==
    IF k = 1 THEN <<FileEntry(FOOTER_FILENAME, TextFile(6, "OUTRO\n"))>>
    ELSE IF k = 2 THEN <<FileEntry(FOOTER_FILENAME, TextFile(3, NBSP \o VT))>>
    ELSE IF k = 3 THEN <<FileEntry(FOOTER_FILENAME, TextFile(0, ""))>>
    ELSE IF k = 4 THEN <<FileEntry(FOOTER_FILENAME, TextFile(17, "[Error: see logs]"))>>
    ELSE <<FileEntry(FOOTER_FILENAME, TextFile(9, NBSP \o "OUTRO" \o VT \o "\n"))>>

FsAssembly(k) ==
    [rootPath |-> Root,
     logFile  |-> TRUE,
     loads    |-> {Root},
     dirs     |-> [i \in {1, 2, 3, 4} |->
        IF i = 1
        THEN Dir(<<FileEntry("ok.py", TextFile(8, "print(1)")),
                   FileEntry("zero.txt", TextFile(0, "")),
                   FileEntry("data.txt", DataVariant(k)),
                   DirEntry("sub", 2), DirEntry("locked", 3), DirEntry("closed", 4)>>
                 \o HeaderVariant(k) \o FooterVariant(k))
        ELSE IF i = 2 THEN Dir(<<FileEntry(HEADER_FILENAME, TextFile(6, "nested"))>>)
        ELSE IF i = 3
        THEN [Dir(<<FileEntry("s.txt", TextFile(6, "secret"))>>) EXCEPT !.search = FALSE]
        ELSE [Dir(<<>>) EXCEPT !.scandir = [err |-> "perm", yielded |-> 0]]]]

\* The text c repeated n times.
RECURSIVE Repeat(_, _)
Repeat(c, n) ==
    IF n = 0 THEN ""
    ELSE IF n % 2 = 1 THEN c \o Repeat(c, n - 1)
    ELSE Repeat(c \o c, n \div 2)

\* A readable file of the given size: the text, filled up with '#'.
SizedFile(size, text) == TextFile(size, text \o Repeat("#", size - Len(text)))

\* Files at the size ceiling: none of 0 bytes, one of exactly
\* MAX_FILE_SIZE_BYTES, one of a byte more, and a header file of twice the
\* ceiling.
FsSizes ==
    [rootPath |-> Root,
     logFile  |-> TRUE,
     loads    |-> {Root},
     dirs     |-> [i \in {1} |->
        Dir(<<FileEntry("zero.txt", TextFile(0, "")),
              FileEntry("edge.dat", SizedFile(MAX_FILE_SIZE_BYTES, "edge")),
              FileEntry("big.log", SizedFile(MAX_FILE_SIZE_BYTES + 1, "big")),
              FileEntry(HEADER_FILENAME, SizedFile(2 * MAX_FILE_SIZE_BYTES, "INTRO"))>>)]]

AssemblyFileSystems == {FsAssembly(k) : k \in 1..5} \cup {FsSizes}

\* The paths a caller may hand to build_context_string.
Selectable ==
    {Root \o <<n>> : n \in {"ok.py", "zero.txt", "data.txt", "sub", "closed",
                            HEADER_FILENAME, FOOTER_FILENAME}}
    \cup {Root \o <<"sub", HEADER_FILENAME>>, Root \o <<"locked", "s.txt">>}

\* Those handed to it on a filesystem: on the one with the files at the
\* size ceiling, these files.
SelectableIn(f) ==
    IF Lookup(f, Root \o <<"edge.dat">>).kind = "file"
    THEN {Root \o <<n>> : n \in {"zero.txt", "edge.dat", "big.log"}}
    ELSE Selectable

\* The longest list of selected files handed to the assembler by itself.
MaxSelected == 3

(***************************************************************************)
(* The controller: controller/app_controller.py, and the state.            *)
(***************************************************************************)

\* The excluded_dirs load_project gives the scanner.
ExcludedDirs == {".git", "__pycache__", "venv", "node_modules", ".idea", ".vscode"}

VARIABLES
    fs,          \* the filesystem
    root_path,   \* AppController.root_path; <<>> for None
    tree,        \* the items of tree_model
    checkState,  \* the check state of each item
    preview,     \* the text of the view's preview
    status,      \* the status bar: [tokens, files]
    dialog,      \* the message of the error dialog the last operation showed, ""
                 \* when it showed none: the dialog is modal, and the user has
                 \* closed it when the next operation starts
    message,     \* the last temporary message of the status bar, "" before any
    assembled,   \* the last _regenerate_preview: [files, parts]
    signal,      \* the last toggle: [emitted, seen]
    lastToggle,  \* the last toggle: [item, state, before]
    prevToggle,  \* the toggle before it
    excluded_dirs, \* FileScanner.excluded_dirs
    scan_data,   \* the result of the last scan(): <<>> before any, else <<dict>>
    lastLoad,    \* the load request since the last toggle: [path, rejected, before]
    frames       \* the Python frames in use when the last operation called
                 \* scan(), 0 when it did not call it

vars == <<fs, root_path, tree, checkState, preview, status, dialog, message, assembled,
          signal, lastToggle, prevToggle, excluded_dirs, scan_data, lastLoad, frames>>

NoToggle == [item |-> <<>>, state |-> "none", before |-> <<>>]
NoSignal == [emitted |-> <<>>, seen |-> <<>>]
NoAssembly == [files |-> <<>>, parts |-> <<>>]
NoLoad == [path |-> <<>>, rejected |-> FALSE, before |-> <<>>]

\* What a load request must leave alone when it fails.
Loaded == [root_path |-> root_path, tree |-> tree, checkState |-> checkState,
           preview |-> preview, status |-> status, scan_data |-> scan_data]

\* The items of the tree, the invisible root item left out.
Items == DOMAIN checkState

\* The slots connected to tree_model.itemChanged, in the order of the
\* connect() calls: Qt runs them in that order on each emission.
ItemChangedSlots == <<"on_item_changed", "_on_tree_selection_changed">>

\* One slot run on the application [w, preview, status, dialog, assembled,
\* seen].  _safe_execute turns an exception of _regenerate_preview into an
\* error dialog, and the view keeps what it showed.
RunSlot(app, slot, item) ==
    IF slot = "on_item_changed"
    THEN [app EXCEPT !.w = on_item_changed(tree, root_path, app.w, item)]
    ELSE IF root_path = <<>> THEN app
    ELSE LET selected_files == get_checked_files(tree, app.w.cs, root_path)
             raised         == build_raises(fs, selected_files, root_path)
             parts          == output_parts(fs, selected_files, root_path)
             context_str    == Join("\n", parts)
         IN  IF raised # <<>>
             THEN [app EXCEPT !.dialog = "An unexpected error occurred: " \o raised[1],
                              !.seen   = app.w.cs]
             ELSE
             [app EXCEPT !.preview   = context_str,
                         !.status    = [tokens |-> estimate_token_count(context_str),
                                        files  |-> Len(selected_files)],
                         !.assembled = [files |-> selected_files, parts |-> parts],
                         !.seen      = app.w.cs]

RECURSIVE RunSlots(_, _, _)
RunSlots(app, slots, item) ==
    IF slots = <<>> THEN app
    ELSE RunSlots(RunSlot(app, Head(slots), item), Tail(slots), item)

Init ==
    /\ fs \in FileSystems
    /\ root_path = <<>>
    /\ tree = <<>>
    /\ checkState = <<>>
    /\ preview = ""
    /\ status = [tokens |-> 0, files |-> 0]
    /\ dialog = ""
    /\ message = ""
    /\ assembled = NoAssembly
    /\ signal = NoSignal
    /\ lastToggle = NoToggle
    /\ prevToggle = NoToggle
    /\ excluded_dirs = ExcludedDirs
    /\ scan_data = <<>>
    /\ lastLoad = NoLoad
    /\ frames = 0

\* The test of load_project on the resolved path:
\* path_obj.exists() and path_obj.is_dir().
IsValidRootIfExists(target) == target.kind # "missing"
IsValidRoot(target) == target.kind = "dir"

\* The test of FileScanner.__init__ on its root path.
ScannerAcceptsRoot(target) == target.kind = "dir"

\* load_project(root_path).  The path is resolved first; the message of a
\* rejected load names it as it was given.  in_use is the number of frames
\* in use when load_project calls scan(), its own counted.
LoadProject(path, in_use) ==
    LET path_obj == Resolve(fs, path)
        target   == Lookup(fs, path_obj)
        rejected == [path |-> path, rejected |-> TRUE, before |-> Loaded]
    IN  IF target.kind = "denied"
        THEN /\ dialog' = "Could not load project:\n" \o PermissionErrorStr(path_obj)
             /\ lastLoad' = rejected
             /\ frames' = 0
             /\ UNCHANGED <<fs, root_path, tree, checkState, preview, status, message, assembled,
                            signal, lastToggle, prevToggle, excluded_dirs, scan_data>>
        ELSE IF ~IsValidRoot(target)
        THEN /\ dialog' = "Could not load project:\nInvalid directory: " \o PathStr(path)
             /\ lastLoad' = rejected
             /\ frames' = 0
             /\ UNCHANGED <<fs, root_path, tree, checkState, preview, status, message, assembled,
                            signal, lastToggle, prevToggle, excluded_dirs, scan_data>>
        ELSE IF ~ScannerAcceptsRoot(target)
        THEN /\ root_path' = path_obj
             /\ dialog' = "Could not load project:\nPath is not a directory: "
                              \o PathStr(path_obj)
             /\ lastLoad' = rejected
             /\ frames' = 0
             /\ UNCHANGED <<fs, tree, checkState, preview, status, message, assembled,
                            signal, lastToggle, prevToggle, excluded_dirs, scan_data>>
        ELSE LET data  == scan(fs, ExcludedDirs, target.ino, in_use)
                 items == populate(data, path_obj)
             IN  /\ root_path' = path_obj
                 /\ excluded_dirs' = ExcludedDirs
                 /\ scan_data' = <<data>>
                 /\ tree' = items
                 /\ checkState' = [p \in DOMAIN items \ {path_obj} |-> "Unchecked"]
                 /\ preview' = ""
                 /\ status' = [tokens |-> 0, files |-> 0]
                 /\ assembled' = NoAssembly
                 /\ signal' = NoSignal
                 /\ lastToggle' = NoToggle
                 /\ prevToggle' = NoToggle
                 /\ lastLoad' = [path |-> path, rejected |-> FALSE, before |-> Loaded]
                 /\ dialog' = ""
                 /\ frames' = in_use
                 /\ UNCHANGED <<fs, message>>

\* The user clicks the check box of an item: the view sets the item's check
\* state, the model emits itemChanged and the connected slots run.
Toggle(item, state) ==
    /\ item \in Items
    /\ checkState[item] # state
    /\ \E app \in {RunSlots([w |-> setCheckState([cs |-> checkState, blocked |-> FALSE,
                                                   emitted |-> <<>>], item, state),
                             preview |-> preview, status |-> status, dialog |-> "",
                             assembled |-> assembled, seen |-> <<>>],
                            ItemChangedSlots, item)} :
           /\ checkState' = app.w.cs
           /\ preview' = app.preview
           /\ status' = app.status
           /\ assembled' = app.assembled
           /\ signal' = [emitted |-> app.w.emitted, seen |-> app.seen]
           /\ lastToggle' = [item |-> item, state |-> state, before |-> checkState]
           /\ prevToggle' = lastToggle
           /\ dialog' = app.dialog
    /\ lastLoad' = NoLoad
    /\ frames' = 0
    /\ UNCHANGED <<fs, root_path, tree, excluded_dirs, scan_data, message>>

\* What pyperclip.copy does with a text: it copies it, or raises
\* PyperclipException (no clipboard mechanism on the system) or another
\* exception.
ClipboardOutcomes == {"copied", "PyperclipException", "Exception"}

\* ClipboardService.copy_text(text): <<success, message>>.
copy_text(text, outcome) ==
    IF text = "" THEN <<FALSE, "Nothing to copy.">>
    ELSE IF outcome = "copied" THEN <<TRUE, "Copied to clipboard!">>
    ELSE IF outcome = "PyperclipException"
    THEN <<FALSE, "Clipboard failed: Missing system dependency (install xclip or xsel).">>
    ELSE <<FALSE, "Clipboard error occurred.">>

\* copy_context_to_clipboard(): the user clicks the copy button.
CopyContext(outcome) ==
    /\ \E result \in {copy_text(preview, outcome)} :
          IF result[1]
          THEN message' = result[2] /\ dialog' = ""
          ELSE dialog' = result[2] /\ UNCHANGED message
    /\ lastLoad' = NoLoad
    /\ frames' = 0
    /\ UNCHANGED <<fs, root_path, tree, checkState, preview, status, assembled, signal,
                   lastToggle, prevToggle, excluded_dirs, scan_data>>

Next ==
    \/ \E path \in fs.loads, in_use \in LoadFrames : LoadProject(path, in_use)
    \/ \E item \in Items, state \in {"Checked", "Unchecked"} : Toggle(item, state)
    \/ \E outcome \in ClipboardOutcomes : CopyContext(outcome)

Spec == Init /\ [][Next]_vars

\* The assembler by itself: build_context_string on any list of paths.
InitAssembly ==
    /\ fs \in AssemblyFileSystems
    /\ root_path = fs.rootPath
    /\ tree = <<>>
    /\ checkState = <<>>
    /\ preview = ""
    /\ status = [tokens |-> 0, files |-> 0]
    /\ dialog = ""
    /\ message = ""
    /\ assembled = NoAssembly
    /\ signal = NoSignal
    /\ lastToggle = NoToggle
    /\ prevToggle = NoToggle
    /\ excluded_dirs = ExcludedDirs
    /\ scan_data = <<>>
    /\ lastLoad = NoLoad
    /\ frames = 0

\* build_context_string(file_paths, root_path) and estimate_token_count on
\* the list so far with one more path.  When the call raises, the caller
\* has no document: dialog keeps the exception.
Assemble(file_path) ==
    /\ Len(assembled.files) < MaxSelected
    /\ IF build_raises(fs, Append(assembled.files, file_path), root_path) # <<>>
       THEN /\ dialog' = build_raises(fs, Append(assembled.files, file_path), root_path)[1]
            /\ UNCHANGED <<assembled, preview, status>>
       ELSE \E parts \in {output_parts(fs, Append(assembled.files, file_path), root_path)} :
               /\ assembled' = [files |-> Append(assembled.files, file_path), parts |-> parts]
               /\ preview' = Join("\n", parts)
               /\ status' = [tokens |-> estimate_token_count(Join("\n", parts)),
                             files  |-> Len(assembled.files) + 1]
               /\ dialog' = ""
    /\ UNCHANGED <<fs, root_path, tree, checkState, signal, lastToggle, prevToggle,
                   excluded_dirs, scan_data, lastLoad, message, frames>>

NextAssembly == \E file_path \in SelectableIn(fs) : Assemble(file_path)

SpecAssembly == InitAssembly /\ [][NextAssembly]_vars

\* The scanner by itself: a FileScanner constructed on a directory with any
\* of the exclusion sets, and scan() called on it.
InitScan ==
    /\ fs \in ScanFileSystems
    /\ excluded_dirs \in ExclusionSets
    /\ root_path = <<>>
    /\ scan_data = <<>>
    /\ tree = <<>>
    /\ checkState = <<>>
    /\ preview = ""
    /\ status = [tokens |-> 0, files |-> 0]
    /\ dialog = ""
    /\ message = ""
    /\ assembled = NoAssembly
    /\ signal = NoSignal
    /\ lastToggle = NoToggle
    /\ prevToggle = NoToggle
    /\ lastLoad = NoLoad
    /\ frames = 0

\* FileScanner(path, excluded_dirs).scan(): the scanner keeps the resolved
\* path as its root_path.  in_use is the number of frames in use when
\* scan() is called.
Scan(path, in_use) ==
    /\ ScannerAcceptsRoot(Lookup(fs, Resolve(fs, path)))
    /\ root_path' = Resolve(fs, path)
    /\ scan_data' = <<scan(fs, excluded_dirs, Lookup(fs, Resolve(fs, path)).ino, in_use)>>
    /\ frames' = in_use
    /\ dialog' = ""
    /\ UNCHANGED <<fs, excluded_dirs, tree, checkState, preview, status, message,
                   assembled, signal, lastToggle, prevToggle, lastLoad>>

NextScan == \E path \in fs.loads, in_use \in CallerFrames : Scan(path, in_use)

SpecScan == InitScan /\ [][NextScan]_vars

(***************************************************************************)
(* What the claims speak of.                                               *)
(***************************************************************************)

Toggled == lastToggle.item # <<>>

Descendants(item) == {p \in Items : IsPrefix(item, p) /\ p # item}

\* The File leaves below an item.
FileLeaves(item) == {p \in Descendants(item) : ~tree[p].isDir}

\* The items below an item that have no children: files and empty directories.
ChildlessBelow(item) == {p \in Descendants(item) : tree[p].rows = <<>>}

\* C1 as stated: every directory is Checked iff every File leaf below it is
\* Checked, Unchecked iff none is, and Partial otherwise.
C1_DirectoryStateByFileLeaves ==
    \A d \in Items : tree[d].isDir =>
        /\ checkState[d] = "Checked" <=> \A p \in FileLeaves(d) : checkState[p] = "Checked"
        /\ checkState[d] = "Unchecked" <=> \A p \in FileLeaves(d) : checkState[p] # "Checked"
        /\ checkState[d] = "PartiallyChecked" <=>
              /\ \E p \in FileLeaves(d) : checkState[p] = "Checked"
              /\ \E p \in FileLeaves(d) : checkState[p] # "Checked"

\* C1 amended: every directory that has at least one child is Checked iff
\* every childless item below it (File leaf or empty directory) is Checked,
\* Unchecked iff none of them is, and Partial otherwise.
C1_DirectoryStateByChildless ==
    \A d \in Items : tree[d].rows # <<>> =>
        /\ checkState[d] = "Checked" <=> \A p \in ChildlessBelow(d) : checkState[p] = "Checked"
        /\ checkState[d] = "Unchecked" <=> \A p \in ChildlessBelow(d) : checkState[p] # "Checked"
        /\ checkState[d] = "PartiallyChecked" <=>
              /\ \E p \in ChildlessBelow(d) : checkState[p] = "Checked"
              /\ \E p \in ChildlessBelow(d) : checkState[p] # "Checked"

\* C1 witness: after a toggle, a directory is Partial because the empty
\* directory below it is Unchecked while all its File leaves are Checked.
C1_Witness ==
    /\ Toggled
    /\ \E d \in Items :
          /\ checkState[d] = "PartiallyChecked"
          /\ FileLeaves(d) # {}
          /\ \A p \in FileLeaves(d) : checkState[p] = "Checked"
          /\ \E e \in ChildlessBelow(d) : tree[e].isDir /\ checkState[e] = "Unchecked"

\* The last two toggles were toggle(n, Checked) and then toggle(n, Unchecked).
RoundTripDone ==
    /\ prevToggle.item # <<>>
    /\ lastToggle.item = prevToggle.item
    /\ prevToggle.state = "Checked"
    /\ lastToggle.state = "Unchecked"

\* C2 as stated: toggle(n, Checked) immediately followed by
\* toggle(n, Unchecked) leaves every node in the state it had before.
C2_RoundTripRestores == RoundTripDone => checkState = prevToggle.before

\* C2 amended: the round trip restores the whole tree when n was Unchecked
\* before the first toggle.
C2_RoundTripRestoresUnchecked ==
    RoundTripDone /\ prevToggle.before[prevToggle.item] = "Unchecked"
        => checkState = prevToggle.before

\* C2 witness: a round trip on an Unchecked directory with children, below a
\* directory that was Partial before and is Partial again.
C2_Witness ==
    /\ RoundTripDone
    /\ prevToggle.before[prevToggle.item] = "Unchecked"
    /\ tree[lastToggle.item].rows # <<>>
    /\ ItemParent(tree, root_path, lastToggle.item) # <<>>
    /\ checkState[ItemParent(tree, root_path, lastToggle.item)] = "PartiallyChecked"
    /\ lastToggle.before[ItemParent(tree, root_path, lastToggle.item)] = "Checked"

CheckedFiles == get_checked_files(tree, checkState, root_path)

\* C3: checkedFiles() returns exactly the paths of the File items that are
\* Checked, each once, and never the path of a directory.
C3_CheckedFilesAreCheckedFileNodes ==
    /\ {CheckedFiles[i] : i \in 1..Len(CheckedFiles)}
          = {p \in Items : ~tree[p].isDir /\ checkState[p] = "Checked"}
    /\ \A i, j \in 1..Len(CheckedFiles) : CheckedFiles[i] = CheckedFiles[j] => i = j

\* The Checked files in the presentation order: a pre-order walk, each
\* directory's rows in row order (directories first, then by folded name).
RECURSIVE PreOrderChecked(_)
RECURSIVE PreOrderRows(_)
PreOrderRows(rows) ==
    IF rows = <<>> THEN <<>> ELSE PreOrderChecked(Head(rows)) \o PreOrderRows(Tail(rows))

PreOrderChecked(item) ==
    IF item # root_path /\ ~tree[item].isDir
    THEN IF checkState[item] = "Checked" THEN <<item>> ELSE <<>>
    ELSE PreOrderRows(tree[item].rows)

IsFileItem(p) == ~tree[p].isDir

\* C4 as stated: checkedFiles() gives the Checked files in the order of the
\* depth-first pre-order walk, directories first.
C4_PresentationOrder ==
    root_path # <<>> => SelectSeq(CheckedFiles, IsFileItem) = PreOrderChecked(root_path)

\* The code points of a name folded to lower case: those of 'A'..'Z' and of
\* the capital letters U+00C0 to U+00DE (U+00D7 is no letter) 32 higher.
FoldedCode(n) ==
    IF n \in 65..90 \/ (n \in 192..222 /\ n # 215) THEN n + 32 ELSE n

FoldedCodes(name) == [i \in 1..Len(name) |-> FoldedCode(Ord(CharAt(name, i)))]

\* a comes before b in the lexicographic order of number sequences.
SeqBefore(a, b) ==
    \E k \in 1..Len(b) :
        /\ k <= Len(a) + 1
        /\ \A i \in 1..(k - 1) : a[i] = b[i]
        /\ k = Len(a) + 1 \/ a[k] < b[k]

\* The presentation order of two items of one directory: directories before
\* files, then by case-insensitive name.
PresentedBefore(p, q) ==
    \/ tree[p].isDir /\ ~tree[q].isDir
    \/ /\ tree[p].isDir = tree[q].isDir
       /\ SeqBefore(FoldedCodes(NameOf(p)), FoldedCodes(NameOf(q)))

\* The length of the longest common prefix of two paths.
RECURSIVE CommonLen(_, _)
CommonLen(a, b) ==
    IF a = <<>> \/ b = <<>> \/ Head(a) # Head(b) THEN 0 ELSE 1 + CommonLen(Tail(a), Tail(b))

\* Whether the stack walk emits p before q: entries of one directory in
\* sorted order; a directory's own entries before those of its
\* subdirectories; of two sibling subdirectories, the subtree of the one later
\* in the sorted order first.
StackOrder(p, q) ==
    LET dp == ParentOf(p)
        dq == ParentOf(q)
        n  == CommonLen(dp, dq)
    IN  IF dp = dq THEN PresentedBefore(p, q)
        ELSE IF n = Len(dp) THEN TRUE
        ELSE IF n = Len(dq) THEN FALSE
        ELSE PresentedBefore(SubSeq(dq, 1, n + 1), SubSeq(dp, 1, n + 1))

\* C4 amended: checkedFiles() gives the Checked entries in the order of its
\* stack walk: a directory's own entries, in sorted order, before those of
\* its subdirectories, and the subdirectories in reverse sorted order.
C4_StackOrder ==
    \A i, j \in 1..Len(CheckedFiles) : i < j => StackOrder(CheckedFiles[i], CheckedFiles[j])

\* C4 witness: the result holds a file of a directory before a file of its
\* subdirectory, and a file of a later sibling directory before a file of an
\* earlier one; and the files of x/y in the order of their folded names'
\* code points, z.txt before the two names that begin with U+00E9 when
\* folded.
C4_Witness ==
    /\ SelectSeq(CheckedFiles, LAMBDA p : ParentOf(p) = root_path \o <<"x", "y">>)
          = <<root_path \o <<"x", "y", "z.txt">>, root_path \o <<"x", "y", "éa.txt">>,
              root_path \o <<"x", "y", "Éb.txt">> >>
    /\ \E i, j \in 1..Len(CheckedFiles) :
          /\ i < j
          /\ Len(ParentOf(CheckedFiles[i])) < Len(ParentOf(CheckedFiles[j]))
          /\ IsPrefix(ParentOf(CheckedFiles[i]), ParentOf(CheckedFiles[j]))
          /\ ParentOf(CheckedFiles[i]) # root_path
    /\ \E i, j \in 1..Len(CheckedFiles) :
          /\ i < j
          /\ ~IsPrefix(ParentOf(CheckedFiles[i]), ParentOf(CheckedFiles[j]))
          /\ ~IsPrefix(ParentOf(CheckedFiles[j]), ParentOf(CheckedFiles[i]))

\* C5: each toggle emits itemChanged once, for the toggled item, so each
\* connected slot runs once: the propagation's own state changes emit
\* nothing, and the controller's slot sees the settled tree.
C5_ToggleIsAtomic ==
    Toggled => signal.emitted = <<lastToggle.item>> /\ signal.seen = checkState

\* C5 witness: a toggle of a directory whose propagation changed items below
\* it and its parent above it.
C5_Witness ==
    /\ Toggled
    /\ ItemParent(tree, root_path, lastToggle.item) # <<>>
    /\ checkState[ItemParent(tree, root_path, lastToggle.item)]
          # lastToggle.before[ItemParent(tree, root_path, lastToggle.item)]
    /\ \E p \in Descendants(lastToggle.item) : checkState[p] # lastToggle.before[p]
    /\ signal.seen = checkState

\* The symbolic links to a directory that is an ancestor of the link, among
\* the entries a scan from the directory ino at path reaches.
RECURSIVE CycleLinks(_, _, _, _)
CycleLinks(f, ino, path, ancestors) ==
    LET es == f.dirs[ino].entries
    IN  UNION {
            IF es[i].type = "symlink" /\ es[i].ino \in ancestors \cup {ino}
            THEN {Append(path, es[i].name)}
            ELSE IF es[i].type = "dir" /\ es[i].ino \notin ancestors \cup {ino}
                    /\ es[i].name \notin ExcludedDirs
            THEN CycleLinks(f, es[i].ino, Append(path, es[i].name), ancestors \cup {ino})
            ELSE {}
            : i \in 1..Len(es)}

\* C6: once the root is loaded (the scan has ended), each symbolic link back
\* to an ancestor is in the tree as a directory with no children.
C6_CycleLinkIsEmptyDirectory ==
    root_path = fs.rootPath =>
        \A p \in CycleLinks(fs, 1, fs.rootPath, {}) :
            p \in DOMAIN tree /\ tree[p].isDir /\ tree[p].rows = <<>>

(***************************************************************************)
(* The claims on the assembler, on the last assembly [files, parts].       *)
(***************************************************************************)

Assembled == assembled # NoAssembly

\* The parts that open with the heading of a file's section.
SectionsOf(file_path) ==
    {i \in 1..Len(assembled.parts) :
        StartsWith(assembled.parts[i],
                   "## File: " \o get_relative_path_safe(file_path, root_path) \o "\n")}

\* The file has a section, and each section of it has that body.
HasSectionWith(file_path, body) ==
    /\ SectionsOf(file_path) # {}
    /\ \A i \in SectionsOf(file_path) :
          assembled.parts[i] = FileSection(file_path, root_path, body)

\* A file other than one named as the header or the footer.
Ordinary(file_path) == NameOf(file_path) \notin {HEADER_FILENAME, FOOTER_FILENAME}

\* The placeholder the read policy names for what the filesystem holds at a
\* path, "" when the read does not fail.
PlaceholderFor(file_path) ==
    LET st == Lookup(fs, file_path)
    IN  IF st.kind = "missing" THEN "[Error: File not found]"
        ELSE IF st.kind = "dir" /\ fs.dirs[st.ino].scandir.err = "perm"
        THEN "[Error: Permission denied]"
        ELSE IF st.kind = "dir"
        THEN "[Error: System error [Errno 21] Is a directory: '" \o PathStr(file_path) \o "']"
        ELSE IF ~st.file.statOk THEN "[Error: Could not access file metadata]"
        ELSE IF st.file.size > 1000000
        THEN "[Error: File too large to include (" \o ToString(st.file.size) \o " bytes)]"
        ELSE IF st.file.size = 0 THEN ""
        ELSE IF st.file.open = "perm" THEN "[Error: Permission denied]"
        ELSE IF st.file.open = "os" THEN "[Error: System error " \o st.file.msg \o "]"
        ELSE IF ~st.file.utf8 THEN "[Error: Binary or unsupported encoding]"
        ELSE ""

\* C7: every assembly yields a document, in which each failing ordinary file
\* has a section whose body is the placeholder of its failure, and each
\* other ordinary file with content the section of its content.
C7_FailingFilesGetPlaceholders ==
    Assembled =>
        /\ SubSeq(assembled.parts, 1, 2) = Preamble
        /\ \A i \in 1..Len(assembled.files) :
              LET f == assembled.files[i]
              IN  Ordinary(f) =>
                     IF PlaceholderFor(f) # "" THEN HasSectionWith(f, PlaceholderFor(f))
                     ELSE Lookup(fs, f).file.size > 0
                             => HasSectionWith(f, Lookup(fs, f).file.text)

\* The sections of the files from the i-th on that are not the header or the
\* footer file under the root and whose read gives a non-empty string.
RECURSIVE EligibleSections(_, _)
EligibleSections(files, i) ==
    IF i > Len(files) THEN <<>>
    ELSE IF /\ files[i] \notin {Append(root_path, HEADER_FILENAME),
                                Append(root_path, FOOTER_FILENAME)}
            /\ read_file_safe(fs, files[i]) # ""
         THEN <<FileSection(files[i], root_path, read_file_safe(fs, files[i]))>>
              \o EligibleSections(files, i + 1)
         ELSE EligibleSections(files, i + 1)

\* C8: the document is the preamble, the header content if present, one
\* section per eligible file in input order, and the footer content if
\* present; a file is eligible unless it is the header or footer file
\* directly under the root or its read gives the empty string.
C8_DocumentStructure ==
    Assembled =>
        assembled.parts = Preamble \o HeaderParts(fs, root_path)
                             \o EligibleSections(assembled.files, 1)
                             \o FooterParts(fs, root_path)

\* White space: the characters for which Python's str.isspace() holds, by
\* code point (tab to carriage return, the four separators, space, next
\* line, no-break space).
WhiteSpace ==
    {CharAt(CodePage, n) : n \in (9..13) \cup (28..32) \cup {133, 160}}

\* The i-th character of a text is something other than white space.
Ink(text, i) == CharAt(text, i) \notin WhiteSpace

HasInk(text) == \E i \in 1..Len(text) : Ink(text, i)

\* The place of the first such character, and that of the last, found from
\* the end.
FirstInk(text) ==
    CHOOSE i \in 1..Len(text) : Ink(text, i) /\ \A j \in 1..(i - 1) : ~Ink(text, j)

LastInk(text) ==
    Len(text) + 1
      - (CHOOSE k \in 1..Len(text) :
            /\ Ink(text, Len(text) + 1 - k)
            /\ \A j \in 1..(k - 1) : ~Ink(text, Len(text) + 1 - j))

\* The text without the white space before its first and after its last
\* other character; "" when it holds nothing else.
TrimmedText(text) ==
    IF HasInk(text) THEN SubSeq(text, FirstInk(text), LastInk(text)) ELSE ""

\* The header or footer file is present and readable: a regular file that
\* stat(), open() and the UTF-8 decoding accept, with content to insert.
SpecialReadable(name) ==
    LET st == Lookup(fs, Append(root_path, name))
    IN  /\ st.kind = "file"
        /\ st.file.statOk /\ st.file.open = "none" /\ st.file.utf8
        /\ HasInk(st.file.text)

\* The read policy yields the file's content, and it is not taken for a
\* placeholder: within the size ceiling and not beginning with "[Error".
SpecialInserted(name) ==
    /\ SpecialReadable(name)
    /\ Lookup(fs, Append(root_path, name)).file.size <= 1000000
    /\ ~StartsWith(Lookup(fs, Append(root_path, name)).file.text, "[Error")

Trimmed(name) == TrimmedText(Lookup(fs, Append(root_path, name)).file.text)

Occurrences(part) == Cardinality({i \in 1..Len(assembled.parts) : assembled.parts[i] = part})

\* The header is the part after the preamble, the footer the last part,
\* each there once, and neither file has a section.
HeaderInPlace ==
    /\ Len(assembled.parts) >= 3
    /\ assembled.parts[3] = Trimmed(HEADER_FILENAME) \o "\n"
    /\ Occurrences(Trimmed(HEADER_FILENAME) \o "\n") = 1
    /\ SectionsOf(Append(root_path, HEADER_FILENAME)) = {}

FooterInPlace ==
    /\ Len(assembled.parts) >= 3
    /\ assembled.parts[Len(assembled.parts)] = "\n" \o Trimmed(FOOTER_FILENAME)
    /\ Occurrences("\n" \o Trimmed(FOOTER_FILENAME)) = 1
    /\ SectionsOf(Append(root_path, FOOTER_FILENAME)) = {}

\* C9 as stated: the trimmed content of a present and readable header
\* (footer) file is in the document once, at its position, whether or not
\* the file is selected, and the file has no section.
C9_SpecialFilesInsertedOnce ==
    Assembled =>
        /\ SpecialReadable(HEADER_FILENAME) => HeaderInPlace
        /\ SpecialReadable(FOOTER_FILENAME) => FooterInPlace

\* C9 amended: so it is when the file's read yields content, within the size
\* ceiling, that does not begin with "[Error".
C9_AcceptedSpecialFilesInsertedOnce ==
    Assembled =>
        /\ SpecialInserted(HEADER_FILENAME) => HeaderInPlace
        /\ SpecialInserted(FOOTER_FILENAME) => FooterInPlace

InFiles(file_path) == \E i \in 1..Len(assembled.files) : assembled.files[i] = file_path

\* C9 witness: the header and the footer file are both selected, with an
\* ordinary file, and both are inserted, without the no-break spaces and the
\* vertical tab around their text.
C9_Witness ==
    /\ InFiles(Append(root_path, HEADER_FILENAME))
    /\ InFiles(Append(root_path, FOOTER_FILENAME))
    /\ SpecialInserted(HEADER_FILENAME) /\ SpecialInserted(FOOTER_FILENAME)
    /\ Len(assembled.parts) = 5
    /\ HeaderInPlace /\ FooterInPlace
    /\ assembled.parts[3] = "INTRO\n" /\ assembled.parts[5] = "\nOUTRO"
    /\ Lookup(fs, Append(root_path, HEADER_FILENAME)).file.text
          = VT \o NBSP \o "INTRO" \o NBSP \o "\n"
    /\ Lookup(fs, Append(root_path, FOOTER_FILENAME)).file.text
          = NBSP \o "OUTRO" \o VT \o "\n"

\* C10: an ordinary selected file of N bytes has no section when N = 0; a
\* section whose body is the too-large placeholder with N when
\* N > 1,000,000; and else a section, whose body is its content when the
\* read succeeds.
C10_SizePolicy ==
    \A i \in 1..Len(assembled.files) :
        LET f  == assembled.files[i]
            st == Lookup(fs, f)
        IN  st.kind = "file" /\ st.file.statOk /\ Ordinary(f) =>
               /\ st.file.size = 0 => SectionsOf(f) = {}
               /\ st.file.size > 1000000 =>
                     /\ HasSectionWith(f, "[Error: File too large to include ("
                                             \o ToString(st.file.size) \o " bytes)]")
               /\ st.file.size >= 1 /\ st.file.size <= 1000000 =>
                     /\ SectionsOf(f) # {}
                     /\ st.file.open = "none" =>
                           HasSectionWith(f, IF st.file.utf8 THEN st.file.text
                                             ELSE st.file.latin1)

\* C10 witness: a zero-byte file, a file of exactly 1,000,000 bytes and one
\* of 1,000,001 bytes were assembled together.
C10_Witness ==
    /\ \E i \in 1..Len(assembled.files) : Lookup(fs, assembled.files[i]).file.size = 1000000
    /\ \E i \in 1..Len(assembled.files) : Lookup(fs, assembled.files[i]).file.size = 1000001
    /\ \E i \in 1..Len(assembled.files) :
          /\ Lookup(fs, assembled.files[i]).kind = "file"
          /\ Lookup(fs, assembled.files[i]).file.size = 0
    /\ Len(assembled.parts) = IF HeaderParts(fs, root_path) = <<>> THEN 4 ELSE 5

(***************************************************************************)
(* The claims on loading and on the scanner.                               *)
(***************************************************************************)

\* The last request was a load of a path that does not exist or is not a
\* directory.
InvalidLoadDone ==
    /\ lastLoad.path # <<>>
    /\ Lookup(fs, lastLoad.path).kind \in {"missing", "file", "other"}

\* C11: a load request whose path does not exist or is not a directory is
\* rejected before any scan, is reported in an error dialog, and leaves the
\* loaded root path, the tree with its check states, the preview, the status
\* bar and the last scan result as they were.
C11_InvalidLoadChangesNothing ==
    InvalidLoadDone =>
        /\ lastLoad.rejected
        /\ StartsWith(dialog, "Could not load project:\nInvalid directory: ")
        /\ Loaded = lastLoad.before

\* C11 witness: a project is loaded, a file of it is Checked and shown, and
\* then a load of a regular file is rejected.
C11_Witness ==
    /\ InvalidLoadDone
    /\ Lookup(fs, lastLoad.path).kind = "file"
    /\ lastLoad.before.root_path # <<>>
    /\ \E p \in Items : checkState[p] = "Checked"
    /\ preview # ""

Scanned == scan_data # <<>>

\* The nodes of a scan result: [path, isFile], path from the scanned root.
RECURSIVE NodesOf(_, _)
NodesOf(data, path) ==
    UNION {{[path |-> LevelPath(path, data[i].name, k), isFile |-> data[i].isFile]
               : k \in 1..data[i].levels}
           \cup NodesOf(data[i].sub, LevelPath(path, data[i].name, data[i].levels))
           : i \in 1..Len(data)}

ScanNodes == NodesOf(scan_data[1], <<>>)

\* The nodes of the scan of the same directory with nothing excluded.
UnfilteredNodes == NodesOf(scan(fs, {}, Lookup(fs, root_path).ino, frames), <<>>)

\* A node is a directory with an excluded name, or lies beneath one.
CutByExclusion(n) ==
    \/ \E k \in 1..(Len(n.path) - 1) : n.path[k] \in excluded_dirs
    \/ ~n.isFile /\ NameOf(n.path) \in excluded_dirs

\* C12 as stated: the scan result has no node for a directory whose name is
\* in the excluded set, at any depth, and none beneath such a directory; and
\* the exclusion removes nothing else: the regular files with such a name
\* and the other directories of the unfiltered scan are still there.
C12_ExcludedDirectoriesOnly ==
    Scanned =>
        \A nodes \in {ScanNodes} :
            /\ \A n \in nodes : ~CutByExclusion(n)
            /\ \A n \in UnfilteredNodes : ~CutByExclusion(n) => n \in nodes

\* C12 witness: a scan that left out .git at the top, node_modules and
\* __pycache__ deeper, with what they hold, and kept the files venv and
\* src/.git.
C12_Witness ==
    /\ Scanned
    /\ {"venv", ".git", "node_modules", "__pycache__"} \subseteq excluded_dirs
    /\ [path |-> <<"venv">>, isFile |-> TRUE] \in ScanNodes
    /\ [path |-> <<"src", ".git">>, isFile |-> TRUE] \in ScanNodes
    /\ [path |-> <<"build", "out.txt">>, isFile |-> TRUE] \in ScanNodes
    /\ [path |-> <<"src", "node_modules", "pkg", "index.js">>, isFile |-> TRUE]
          \in UnfilteredNodes \ ScanNodes
    /\ [path |-> <<".git", "config">>, isFile |-> TRUE] \in UnfilteredNodes \ ScanNodes

\* The filesystem with its failures removed: every directory can be
\* identified and enumerated, every entry inspected.
Healed(f) ==
    [f EXCEPT !.dirs = [i \in DOMAIN f.dirs |->
        LET es == f.dirs[i].entries
        IN  [f.dirs[i] EXCEPT !.statOk  = TRUE,
                              !.scandir = [err |-> "none", yielded |-> 0],
                              !.entries = [j \in 1..Len(es) |-> [es[j] EXCEPT !.err = "none"]]]]]

\* The number of leading components of a path that are the given name, at
\* most max.
LeadingCopies(rel, name, max) ==
    LET m == IF Len(rel) < max THEN Len(rel) ELSE max
    IN  (CHOOSE i \in 1..(m + 1) :
            /\ i = m + 1 \/ rel[i] # name
            /\ \A j \in 1..(i - 1) : rel[j] = name) - 1

\* Every step of the path, from the directory ino on, is an entry that its
\* directory yields before it fails and that can be inspected.
RECURSIVE Survives(_, _, _)
Survives(f, ino, rel) ==
    \/ rel = <<>>
    \/ \E i \in 1..Len(f.dirs[ino].entries) :
          LET e == f.dirs[ino].entries[i]
              c == LeadingCopies(rel, e.name, LevelsOf(e))
          IN  /\ e.name = rel[1]
              /\ e.err = "none"
              /\ f.dirs[ino].scandir.err # "none" => i <= f.dirs[ino].scandir.yielded
              /\ Len(rel) > 1 =>
                    /\ e.type = "dir"
                    /\ Survives(f, InteriorId(InnermostOf(e), LevelsOf(e) - c),
                                SubSeq(rel, c + 1, Len(rel)))

\* The highest frame the scan of the directory ino, called in the frame
\* depth, asks the interpreter for: what the call itself needs, what its
\* logger needs for each entry it cannot inspect, each excluded directory it
\* skips and its own failure to enumerate, and what the calls on its
\* directories ask for, n levels of entries down at most.
SetMax(S) == CHOOSE m \in S : \A x \in S : x <= m

RECURSIVE Demand(_, _, _, _)
Demand(f, ino, depth, n) ==
    LET dir  == f.dirs[ino]
        es   == dir.entries
        seen == {i \in 1..Len(es) : dir.scandir.err # "none" => i <= dir.scandir.yielded}
        logs == (IF dir.scandir.err # "none" THEN {LogFrames(f, "ERROR")} ELSE {})
                \cup {LogFrames(f, IF es[i].err = "perm" THEN "WARNING" ELSE "ERROR")
                         : i \in {k \in seen : es[k].err # "none"}}
                \cup {LogFrames(f, "DEBUG")
                         : i \in {k \in seen : /\ es[k].err = "none" /\ es[k].type = "dir"
                                                /\ es[k].name \in excluded_dirs}}
        subs == {i \in seen : /\ es[i].err = "none" /\ es[i].type = "dir"
                              /\ es[i].name \notin excluded_dirs}
    IN  SetMax({depth + CallFrames} \cup {depth + k : k \in logs}
               \cup (IF n = 0 THEN {}
                     ELSE {Demand(f, InnermostOf(es[i]), depth + LevelsOf(es[i]), n - 1)
                              : i \in subs}))

\* The scan in the state asks for more frames than the interpreter allows:
\* the unexpected error of a scan near the recursion limit.
ScanOverflows ==
    Demand(fs, Lookup(fs, root_path).ino, frames + 2, Cardinality(DOMAIN fs.dirs))
        > RecursionLimit

\* C12 amended: the scan result has no node for a directory whose name is in
\* the excluded set, at any depth, and none beneath such a directory; and
\* unless the scan ends with the unexpected error of asking for more frames
\* than the interpreter allows, when the result is the empty tree, the
\* exclusion removes nothing else.
C12_ExcludedDirectoriesOnlyUnlessFatal ==
    Scanned =>
        \A nodes \in {ScanNodes} :
            /\ \A n \in nodes : ~CutByExclusion(n)
            /\ IF ScanOverflows THEN scan_data[1] = <<>>
               ELSE \A n \in UnfilteredNodes : ~CutByExclusion(n) => n \in nodes

\* C13: scan() returns a tree whatever fails.  Unless the scan, on top of
\* the frames in use at the call, asks for more frames than the interpreter
\* allows, it is the tree of the same filesystem without the failures, less
\* the entries that a failing directory did not yield or that could not be
\* inspected, and what lies below them; when it asks for more (an
\* unexpected error, which the logging of a failure deep in a nest can
\* bring about by itself) it is the empty tree.
C13_FailuresLoseOnlyTheirEntries ==
    Scanned =>
        LET ino == Lookup(fs, root_path).ino
        IN  IF ScanOverflows
            THEN scan_data[1] = <<>>
            ELSE ScanNodes =
                    {n \in NodesOf(scan(Healed(fs), excluded_dirs, ino, frames), <<>>) :
                        Survives(fs, ino, n.path)}

\* C13 witness: a scan that met a directory it could not enumerate, one that
\* failed after its first entry, an entry it could not inspect and a
\* directory it could not identify, and went on to the entries after them.
C13_Witness ==
    /\ Scanned
    /\ fs.dirs[1].entries[2].name = "denied"
    /\ {[path |-> <<"ok.txt">>, isFile |-> TRUE],
        [path |-> <<"denied">>, isFile |-> FALSE],
        [path |-> <<"flaky">>, isFile |-> FALSE],
        [path |-> <<"flaky", "one.txt">>, isFile |-> TRUE],
        [path |-> <<"nostat", "n.txt">>, isFile |-> TRUE],
        [path |-> <<"after", "z.txt">>, isFile |-> TRUE]} \subseteq ScanNodes
    /\ \A n \in ScanNodes :
          n.path \notin {<<"denied", "hidden.txt">>, <<"flaky", "two.txt">>,
                         <<"weird.bin">>, <<"stale">>}

(***************************************************************************)
(* The claims on what the view shows and on the propagation.               *)
(***************************************************************************)

\* C14: after every toggle on a loaded project the preview is the document
\* built from the checked files of the settled tree, the token estimate is
\* that document's length divided by 4, rounded down, and the file count is
\* the number of checked files.
C14_ViewShowsSettledTree ==
    Toggled =>
        /\ preview = build_context_string(fs, CheckedFiles, root_path)
        /\ status.tokens = Len(build_context_string(fs, CheckedFiles, root_path)) \div 4
        /\ status.files = Len(CheckedFiles)

\* The end-to-end scenario: the root with a.txt, sub/b.py and
\* context_header.md is loaded and both files are Checked.
ScenarioSelected ==
    /\ fs = FsScenario
    /\ root_path = Root
    /\ checkState[Root \o <<"a.txt">>] = "Checked"
    /\ checkState[Root \o <<"sub", "b.py">>] = "Checked"

\* The document of the scenario, a.txt fenced with the given language tag:
\* the preamble, the header content, the section of a.txt, the section of
\* sub/b.py, and nothing after it.
ScenarioDocument(tag) ==
    "# Context Injection\n\n"
    \o "The following codebase context was automatically defined as important for this prompt:\n\n"
    \o "INTRO\n\n"
    \o "## File: a.txt\n" \o Fence \o tag \o "\nhello\n" \o Fence \o "\n\n"
    \o "## File: sub/b.py\n" \o Fence \o "py\nprint(1)\n" \o Fence \o "\n"

\* C15 as stated: in the scenario the document is the preamble, the header
\* content, the section of a.txt with the language tag text, the section of
\* sub/b.py with the tag py, and no footer.
C15_ScenarioTaggedText == ScenarioSelected => preview = ScenarioDocument("text")

\* C15 amended: the same document, the section of a.txt with the language
\* tag txt, its extension.
C15_ScenarioTaggedByExtension == ScenarioSelected => preview = ScenarioDocument("txt")

\* C15 witness: the scenario's files were toggled to Checked one by one and
\* the preview shows the document.
C15_Witness ==
    /\ ScenarioSelected
    /\ Toggled
    /\ assembled.files = <<Root \o <<"a.txt">>, Root \o <<"sub", "b.py">>>>
    /\ Len(assembled.parts) = 5
    /\ preview = ScenarioDocument("txt")


\* The identities of the directories at the steps of a path from the
\* directory ino on, 0 at a step that is no directory.
RECURSIVE PathIdentities(_, _, _)
PathIdentities(f, ino, rel) ==
    LET es  == f.dirs[ino].entries
        hit == {i \in 1..Len(es) :
                   /\ es[i].name = rel[1]
                   /\ es[i].type = "dir" \/ (es[i].type = "symlink" /\ es[i].ino > 0)}
    IN  IF rel = <<>> THEN <<>>
        ELSE IF ino = 0 \/ hit = {} THEN [k \in 1..Len(rel) |-> 0]
        ELSE LET e == es[CHOOSE i \in hit : TRUE]
                 c == LeadingCopies(rel, e.name, LevelsOf(e))
             IN  [k \in 1..c |-> InteriorId(InnermostOf(e), LevelsOf(e) - k)]
                 \o PathIdentities(f, InteriorId(InnermostOf(e), LevelsOf(e) - c),
                                   SubSeq(rel, c + 1, Len(rel)))

\* The identity of the directory at a path below the scanned root.
IdentityAt(rel) ==
    LET ino == Lookup(fs, root_path).ino
    IN  IF rel = <<>> THEN ino ELSE PathIdentities(fs, ino, rel)[Len(rel)]

\* The identities of the directories above the one at a path, the scanned
\* root included.
AncestorIdentities(rel) ==
    LET ino == Lookup(fs, root_path).ino
        ids == PathIdentities(fs, ino, SubSeq(rel, 1, Len(rel) - 1))
    IN  {ino} \cup {ids[k] : k \in 1..Len(ids)}

\* The entries of a directory that a scan stores when it descends into it.
StoredEntries(dir) ==
    {e \in {Enumerated(dir)[i] : i \in 1..Len(Enumerated(dir))} :
        /\ e.err = "none"
        /\ EntryIsFile(e) \/ (EntryIsDir(e) /\ e.name \notin excluded_dirs)}

\* C16: a directory of the result whose identity is that of none of its
\* ancestors is descended into, whatever was seen in other branches: its
\* entries are in the result.
C16_GuardComparesAncestorsOnly ==
    Scanned =>
        \A nodes \in {ScanNodes} : \A n \in nodes :
            ~n.isFile /\ IdentityAt(n.path) \notin AncestorIdentities(n.path) =>
                \A e \in StoredEntries(fs.dirs[IdentityAt(n.path)]) :
                    [path |-> Append(n.path, e.name), isFile |-> EntryIsFile(e)] \in nodes

\* The check states once the toggled item and all below it have the
\* requested state, before any ancestor is recomputed.
AfterDownward ==
    [p \in Items |-> IF IsPrefix(lastToggle.item, p) THEN lastToggle.state
                     ELSE lastToggle.before[p]]

\* Every ancestor of the item recomputed from its direct children, from the
\* parent up to the top level, without stopping.
RECURSIVE RecomputeAllAncestors(_, _)
RecomputeAllAncestors(cs, item) ==
    LET parent == ItemParent(tree, root_path, item)
    IN  IF parent = <<>> THEN cs
        ELSE RecomputeAllAncestors(
                 [cs EXCEPT ![parent] = NewParentState(tree, cs, parent)], parent)

\* C17: the upward propagation, which stops at the first ancestor whose
\* recomputed state is its current state, leaves the tree that recomputing
\* every ancestor up to the top leaves.
C17_EarlyStopEqualsFullClimb ==
    Toggled => checkState = RecomputeAllAncestors(AfterDownward, lastToggle.item)

\* C17 witness: a toggle changed an item and the climb stopped at its
\* parent, whose state stayed Partial, with a further ancestor above it.
C17_Witness ==
    /\ Toggled
    /\ checkState[lastToggle.item] # lastToggle.before[lastToggle.item]
    /\ Len(lastToggle.item) > Len(root_path) + 2
    /\ checkState[ParentOf(lastToggle.item)] = "PartiallyChecked"
    /\ lastToggle.before[ParentOf(lastToggle.item)] = "PartiallyChecked"
    /\ checkState[ParentOf(ParentOf(lastToggle.item))] = "PartiallyChecked"

\* A directory item without children.
EmptyDirectory(p) == tree[p].isDir /\ tree[p].rows = <<>>

\* C18: a directory without children becomes Checked only by a toggle of
\* itself to Checked, never by the propagation of a toggle of another item.
C18_EmptyDirectoryCheckedOnlyDirectly ==
    Toggled =>
        \A e \in Items :
            EmptyDirectory(e) /\ checkState[e] = "Checked" /\ lastToggle.before[e] # "Checked"
                => lastToggle.item = e

\* The symbolic links among the entries of the directory at a path of the
\* result (the empty path for the scanned root) that the scan enumerated.
LinksAt(rel) ==
    {e \in {Enumerated(fs.dirs[IdentityAt(rel)])[i] :
                i \in 1..Len(Enumerated(fs.dirs[IdentityAt(rel)]))} :
        e.type = "symlink" /\ e.err = "none"}

\* C19: in every scanned directory, a symbolic link that resolves to a
\* regular file is a File node of the result, and one that resolves to a
\* directory that is neither excluded nor one of its ancestors is a
\* Directory node with that directory's entries below it.
C19_LinksClassifiedByTarget ==
    Scanned =>
        \A nodes \in {ScanNodes} :
        \A rel \in {<<>>} \cup {n.path : n \in {m \in nodes : ~m.isFile}} :
            \A e \in LinksAt(rel) :
                /\ e.ino = 0 /\ e.file.exists =>
                      [path |-> Append(rel, e.name), isFile |-> TRUE] \in nodes
                /\ e.ino > 0 /\ e.name \notin excluded_dirs
                      /\ e.ino \notin AncestorIdentities(rel) \cup {IdentityAt(rel)} =>
                      /\ [path |-> Append(rel, e.name), isFile |-> FALSE] \in nodes
                      /\ \A c \in StoredEntries(fs.dirs[e.ino]) :
                            [path |-> Append(rel, e.name) \o <<c.name>>,
                             isFile |-> EntryIsFile(c)] \in nodes

\* C20: after toggle(n, s) the item n and every item below it, at every
\* depth, has the state s, and every item that is neither below n nor above
\* it has the state it had before.
C20_SubtreeSetOthersKept ==
    Toggled =>
        \A p \in Items :
            /\ IsPrefix(lastToggle.item, p) => checkState[p] = lastToggle.state
            /\ ~IsPrefix(lastToggle.item, p) /\ ~IsPrefix(p, lastToggle.item)
                  => checkState[p] = lastToggle.before[p]

\* C20 witness: a toggle of a directory changed an item two levels below
\* it, beside a Checked item on another branch that kept its state.
C20_Witness ==
    /\ Toggled
    /\ \E p \in Items :
          /\ IsPrefix(lastToggle.item, p)
          /\ Len(p) >= Len(lastToggle.item) + 2
          /\ lastToggle.before[p] # lastToggle.state
          /\ checkState[p] = lastToggle.state
    /\ \E q \in Items :
          /\ ~IsPrefix(lastToggle.item, q) /\ ~IsPrefix(q, lastToggle.item)
          /\ lastToggle.before[q] = "Checked" /\ lastToggle.state = "Unchecked"
          /\ checkState[q] = "Checked"

=============================================================================
